---- MODULE Spec2Model ----
(***************************************************************************)
(* Model of the car-simulator request matching and dispatch engine.        *)
(*                                                                         *)
(* A request tree is a function from paths (sequences of edges) to node    *)
(* records.  An edge is a byte 0..255, PLACEHOLDER or WILDCARD.  Keys and   *)
(* responses of the Lua tables are sequences of one-character strings.     *)
(*                                                                         *)
(* Memory: RequestByteTreeNode::setLuaResponse returns a second            *)
(* shared_ptr owning `this`; the caller discards it, which destroys the    *)
(* node (and the subtree it owns) while the parent still points to it.     *)
(* The field `live` records this.  RequestByteTreeNode::wildcard is only   *)
(* written by appendWildcard; every other node holds an indeterminate      *)
(* value.  A read of an indeterminate flag, or of a destroyed node, is a   *)
(* nondeterministic choice (a View) made by the reading operation.         *)
(* Abnormal termination is a behaviour that stops, so it adds no state.    *)
(***************************************************************************)
EXTENDS Integers, Sequences, FiniteSets, TLC

\* ---------------------------------------------------------------- bounds
\* greatest number of keys of a Raw table that lookups are made in
MaxKeys == 2
\* greatest number of keys of a Raw table whose build is followed
MaxBuildKeys == 3
\* greatest length of a request in bytes
MaxReqLen == 3

\* ------------------------------------------------------- program constants
PLACEHOLDER == 256
WILDCARD == 257
NoResponse == 0

REQUEST_PLACEHOLDER == <<"X", "X">>
REQUEST_WILDCARD == "*"

Separators == {"_", ".", ",", ";", " ", "#", "\t"}

\* HEX_LUT
HEX_LUT == <<"0", "1", "2", "3", "4", "5", "6", "7", "8", "9", "A", "B", "C", "D", "E", "F">>

LowerHex == <<"a", "b", "c", "d", "e", "f">>

\* The characters strtol takes as digits in base 16.
HexDigits == {HEX_LUT[i] : i \in 1..16} \cup {LowerHex[i] : i \in 1..6}

HexVal(c) ==
  IF \E i \in 1..16 : HEX_LUT[i] = c
  THEN (CHOOSE i \in 1..16 : HEX_LUT[i] = c) - 1
  ELSE IF \E i \in 1..6 : LowerHex[i] = c
       THEN (CHOOSE i \in 1..6 : LowerHex[i] = c) + 9
       ELSE 0

\* ------------------------------------------------------------ Lua tables
\* The raw keys a Raw table may hold; a table is a set of indices into Keys.
Keys ==
  << <<"2","2"," ","F","1">>,
     <<"2","2"," ","X","X">>,
     <<"2","2"," ","*">>,
     <<"2","2"," ","X","X"," ","*">>,
     <<"2","2"," ","F","1"," ","*">>,
     <<"2","2","F","1","*">>,
     <<"2","2"," ","F">>,
     <<"2","2"," ","F"," ","*">>,
     <<"Z","Z">>,
     <<"2","2"," ","*","F">>,
     <<"2","2">>,
     <<"X","X"," ","F","1">> >>

KeyIds == 1..Len(Keys)

\* The bytes requests are made of.
ReqBytes == {0, 34, 241}

RECURSIVE SeqsUpTo(_, _)
SeqsUpTo(S, n) ==
  IF n = 0 THEN {<<>>}
  ELSE LET shorter == SeqsUpTo(S, n - 1)
       IN  shorter \cup {Append(s, b) : s \in {x \in shorter : Len(x) = n - 1}, b \in S}

Requests == SeqsUpTo(ReqBytes, MaxReqLen)

\* ----------------------------------------------------------- conversions
\* EcuLuaScript::cleanupString
cleanupString(rawString) == SelectSeq(rawString, LAMBDA c : c \notin Separators)

\* strtol(unit, NULL, 16) on a two-character unit: the longest prefix of hex
\* digits is converted, anything else ends the number (no digit: 0).
strtol16(unit) ==
  IF unit[1] \in HexDigits
  THEN IF Len(unit) > 1 /\ unit[2] \in HexDigits
       THEN 16 * HexVal(unit[1]) + HexVal(unit[2])
       ELSE HexVal(unit[1])
  ELSE 0

\* EcuLuaScript::literalHexStrToBytes: spaces are removed, then every two
\* characters (a last single one too) are converted with strtol.
RECURSIVE HexUnits(_, _)
HexUnits(s, i) ==
  IF i > Len(s) THEN <<>>
  ELSE <<(strtol16(SubSeq(s, i, IF i + 1 <= Len(s) THEN i + 1 ELSE i)) % 256)>>
         \o HexUnits(s, i + 2)

literalHexStrToBytes(hexString) ==
  HexUnits(SelectSeq(hexString, LAMBDA c : c # " "), 1)

\* strncasecmp(requestByteString, REQUEST_PLACEHOLDER, 2) == 0
IsPlaceholderUnit(unit) ==
  /\ Len(unit) = 2
  /\ unit[1] \in {"X", "x"}
  /\ unit[2] \in {"X", "x"}

\* ------------------------------------------------------------------ tree
\* RequestByteTreeNode(placeholderCount, requestLength): luaResponse is
\* nullopt, wildcard is not initialised.
NewNode(placeholderCount, requestLength) ==
  [ luaResponse      |-> NoResponse,
    placeholderCount |-> placeholderCount,
    requestLength    |-> requestLength,
    wildcard         |-> "indeterminate",
    live             |-> TRUE ]

EmptyTree == [p \in {<<>>} |-> NewNode(0, 0)]

Attach(t, q, node) ==
  [p \in DOMAIN t \cup {q} |-> IF p = q THEN node ELSE t[p]]

\* appendByte that gives the child the requestLength of its parent.
appendByte_SameLength(t, pos, requestByte) ==
  LET q == Append(pos, requestByte)
  IN  IF q \in DOMAIN t THEN t
      ELSE Attach(t, q, NewNode(t[pos].placeholderCount, t[pos].requestLength))

\* RequestByteTreeNode::appendByte: map::emplace keeps an existing child.
appendByte(t, pos, requestByte) ==
  LET q == Append(pos, requestByte)
  IN  IF q \in DOMAIN t THEN t
      ELSE Attach(t, q, NewNode(t[pos].placeholderCount, t[pos].requestLength + 1))

\* RequestByteTreeNode::appendPlaceholder
appendPlaceholder(t, pos) ==
  LET q  == Append(pos, PLACEHOLDER)
      t1 == IF q \in DOMAIN t THEN t
            ELSE Attach(t, q, NewNode(t[pos].placeholderCount + 1, t[pos].requestLength + 1))
  IN  [t1 EXCEPT ![q].placeholderCount = t[pos].placeholderCount + 1]

\* appendWildcard without the test for an existing wildcard child: the
\* existing child is returned, as appendPlaceholder does.
appendWildcard_NoDuplicateTest(t, pos) ==
  LET q == Append(pos, WILDCARD)
  IN  IF q \in DOMAIN t
      THEN [ok |-> TRUE, tree |-> t, leaf |-> q]
      ELSE [ok   |-> TRUE,
            tree |-> Attach(t, q, [NewNode(t[pos].placeholderCount, t[pos].requestLength + 1)
                                     EXCEPT !.wildcard = "true"]),
            leaf |-> q]

\* RequestByteTreeNode::appendWildcard; ok = FALSE is the thrown exception
appendWildcard(t, pos) ==
  LET q == Append(pos, WILDCARD)
  IN  IF q \in DOMAIN t
      THEN [ok |-> FALSE, tree |-> t, leaf |-> pos]
      ELSE [ok   |-> TRUE,
            tree |-> Attach(t, q, [NewNode(t[pos].placeholderCount, t[pos].requestLength + 1)
                                     EXCEPT !.wildcard = "true"]),
            leaf |-> q]

IsPrefix(p, q) == Len(p) <= Len(q) /\ SubSeq(q, 1, Len(p)) = p

\* RequestByteTreeNode::setLuaResponse: the response is stored, then the
\* returned shared_ptr(this) is dropped by the caller, which runs the
\* node's destructor: the node and the children it owns are destroyed.
setLuaResponse(t, leaf, response) ==
  [p \in DOMAIN t |->
     IF p = leaf THEN [t[p] EXCEPT !.luaResponse = response, !.live = FALSE]
     ELSE IF IsPrefix(leaf, p) THEN [t[p] EXCEPT !.live = FALSE]
     ELSE t[p]]

\* EcuLuaScript::addRequestToTree on the cleaned key, from unit i on.
\* ok = FALSE is the thrown exception; the nodes made so far stay.
RECURSIVE addRequestFrom(_, _, _, _)
addRequestFrom(t, pos, requestString, i) ==
  IF i + 1 <= Len(requestString)
  THEN LET requestByteString == SubSeq(requestString, i, i + 1)
       IN  IF IsPlaceholderUnit(requestByteString)
           THEN addRequestFrom(appendPlaceholder(t, pos), Append(pos, PLACEHOLDER),
                               requestString, i + 2)
           ELSE LET requestByte == literalHexStrToBytes(requestByteString)[1]
                IN  addRequestFrom(appendByte(t, pos, requestByte),
                                   Append(pos, requestByte), requestString, i + 2)
  ELSE IF Len(requestString) % 2 # 0
       THEN IF requestString[Len(requestString)] = REQUEST_WILDCARD
            THEN appendWildcard(t, pos)
            ELSE [ok |-> FALSE, tree |-> t, leaf |-> pos]
       ELSE [ok |-> TRUE, tree |-> t, leaf |-> pos]

addRequestToTree(t, requestString) == addRequestFrom(t, <<>>, requestString, 1)

\* EcuLuaScript::buildRequestByteTree run on the keys of order, in that
\* order: the tree it returns.
RECURSIVE TreeOf(_, _, _)
TreeOf(t, order, i) ==
  IF i > Len(order) THEN t
  ELSE LET added == addRequestToTree(t, cleanupString(Keys[order[i]]))
       IN  TreeOf(IF added.ok THEN setLuaResponse(added.tree, added.leaf, order[i])
                  ELSE added.tree, order, i + 1)

\* ----------------------------------------------------------- reading nodes
\* The nodes a walk over request r can visit or substitute: every edge is
\* the request's byte at that position or a placeholder, or is a final
\* wildcard edge.
PathFits(p, r) ==
  /\ Len(p) <= Len(r) + 1
  /\ \A i \in 1..Len(p) :
       \/ i <= Len(r) /\ p[i] \in {r[i], PLACEHOLDER}
       \/ i = Len(p) /\ p[i] = WILDCARD

Reach(t, r) == {p \in DOMAIN t : PathFits(p, r)}

\* What the reads of one lookup may yield: wc is the set of nodes whose
\* wildcard flag reads true, lost the set of destroyed nodes whose
\* luaResponse reads as empty.  A live node's written fields read as written.
MustWc(t, p) == t[p].live /\ t[p].wildcard = "true"

MayWc(t, p) == ~t[p].live \/ t[p].wildcard = "indeterminate"

MayLose(t, p) == ~t[p].live /\ t[p].luaResponse # NoResponse

\* The flag choices for the nodes `fresh`, whose flag is read for the first
\* time.
FlagChoices(t, fresh) ==
  { {p \in fresh : MustWc(t, p)} \cup w : w \in SUBSET {p \in fresh : MayWc(t, p)} }

\* The loop of getValueFromTree, followed for every outcome of the flag
\* reads it makes: a set of [cands, read, wc], the candidates after byte
\* i - 1, the nodes whose flag was read, and those that read true.
RECURSIVE WalkOutcomes(_, _, _, _)
WalkOutcomes(t, payload, i, outcomes) ==
  IF i > Len(payload) THEN outcomes
  ELSE WalkOutcomes(t, payload, i + 1,
         UNION { IF s.cands = {} THEN {s}
                 ELSE { [cands |-> UNION { IF c \in s.wc \cup w THEN {c}
                                           ELSE {Append(c, e) : e \in {payload[i], PLACEHOLDER, WILDCARD}}
                                                  \cap DOMAIN t
                                           : c \in s.cands },
                         read  |-> s.read \cup s.cands,
                         wc    |-> s.wc \cup w]
                        : w \in FlagChoices(t, s.cands \ s.read) }
                 : s \in outcomes })

\* The views of a lookup of r that differ in a read the lookup makes; a
\* field that the lookup does not read is left as written.
Views(t, r) ==
  LET written == {p \in Reach(t, r) : t[p].wildcard = "true"}
  IN  UNION { LET finals == s.cands \cup ({Append(c, WILDCARD) : c \in s.cands} \cap DOMAIN t)
              IN  { [wc   |-> s.wc \cup w \cup (written \ (s.read \cup finals)),
                     lost |-> l]
                    : w \in FlagChoices(t, finals \ s.read),
                      l \in SUBSET {p \in finals : MayLose(t, p)} }
              : s \in WalkOutcomes(t, r, 1, {[cands |-> {<<>>}, read |-> {}, wc |-> {}]}) }

\* The view in which every field reads as the program wrote it and every
\* flag that was never written reads false.
IntactView(t, r) ==
  [wc |-> {p \in Reach(t, r) : t[p].wildcard = "true"}, lost |-> {}]

\* RequestByteTreeNode::isWildcard
isWildcard(v, p) == p \in v.wc

\* RequestByteTreeNode::getLuaResponse
getLuaResponse(t, v, p) == IF p \in v.lost THEN NoResponse ELSE t[p].luaResponse

\* RequestByteTreeNode::getSubsequentWildcard (present or not)
hasSubsequentWildcard(t, p) == Append(p, WILDCARD) \in DOMAIN t

\* ------------------------------------------------------------------ match
\* EcuLuaScript::findAndAddMatchesForNextByte
findAndAddMatchesForNextByte(t, currentByte, nextByte) ==
  {Append(currentByte, e) : e \in {nextByte, PLACEHOLDER, WILDCARD}} \cap DOMAIN t

\* The loop of EcuLuaScript::getValueFromTree over the payload, from byte i.
RECURSIVE Walk(_, _, _, _, _)
Walk(t, v, payload, i, potentiallyMatchingRequests) ==
  IF i > Len(payload) \/ potentiallyMatchingRequests = {}
  THEN potentiallyMatchingRequests
  ELSE Walk(t, v, payload, i + 1,
            UNION { IF isWildcard(v, c) THEN {c}
                    ELSE findAndAddMatchesForNextByte(t, c, payload[i])
                    : c \in potentiallyMatchingRequests })

\* EcuLuaScript::getThisOrNextWildcardWithResponse
getThisOrNextWildcardWithResponse(t, v, p) ==
  IF getLuaResponse(t, v, p) = NoResponse /\ hasSubsequentWildcard(t, p)
  THEN Append(p, WILDCARD)
  ELSE p

\* One iteration of the loop of findBestMatchingRequest; best = <<>> with
\* has = FALSE is the null pointer.
BetterOf(t, v, has, best, item) ==
  LET m == getThisOrNextWildcardWithResponse(t, v, item)
  IN  IF getLuaResponse(t, v, m) = NoResponse THEN [has |-> has, node |-> best]
      ELSE IF ~has THEN [has |-> TRUE, node |-> m]
      ELSE IF isWildcard(v, best) /\ ~isWildcard(v, m) THEN [has |-> TRUE, node |-> m]
      ELSE IF isWildcard(v, m) /\ t[m].requestLength > t[best].requestLength
           THEN [has |-> TRUE, node |-> m]
      ELSE IF t[m].placeholderCount < t[best].placeholderCount
           THEN [has |-> TRUE, node |-> m]
      ELSE [has |-> TRUE, node |-> best]

\* EcuLuaScript::findBestMatchingRequest over the candidates in the order
\* the std::set of pointers yields them.
RECURSIVE findBestFrom(_, _, _, _, _)
findBestFrom(t, v, order, i, acc) ==
  IF i > Len(order) THEN acc
  ELSE findBestFrom(t, v, order, i + 1, BetterOf(t, v, acc.has, acc.node, order[i]))

findBestMatchingRequest(t, v, order) ==
  findBestFrom(t, v, order, 1, [has |-> FALSE, node |-> <<>>])

\* The orders in which a std::set<shared_ptr> can yield the nodes S: the
\* set is ordered by address, which the tree's shape does not determine.
RECURSIVE Orders(_)
Orders(S) ==
  IF S = {} THEN {<<>>}
  ELSE UNION { {<<x>> \o rest : rest \in Orders(S \ {x})} : x \in S }

\* EcuLuaScript::getValueFromTree under view v and visiting order `order`
getValueFromTree(t, v, payload, order) ==
  LET best == findBestMatchingRequest(t, v, order)
  IN  IF best.has THEN getLuaResponse(t, v, best.node) ELSE NoResponse

FinalCandidates(t, v, payload) == Walk(t, v, payload, 1, {<<>>})

\* ------------------------------------------------------------------ state
VARIABLES
  table,      \* the keys of the Lua table `Raw` (indices into Keys)
  pending,    \* keys the loop of buildRequestByteTree has not visited yet
  processed,  \* the keys in the order the loop visited them
  ignored,    \* keys whose exception was caught ("Ignoring invalid request")
  tree,       \* the request byte tree
  pc,         \* "build": buildRequestByteTree is running; "ready": it returned;
              \* "looked": a lookup in the finished tree was made
  probe,      \* the last lookup: request, result, and whether memory read intact
  session,    \* SessionController: the current UDS session
  securityAccessType,   \* UdsReceiver::securityAccessType_
  uds,        \* what the last call of UdsReceiver::proceedReceivedData did:
              \* the request, the optional getRawResponse returned, the
              \* frames handed to IsoTpSender::sendData and the calls made
              \* on the session controller
  ecus,       \* DoIPSimServer::ecus: the registered DoIP simulators
  doip,       \* what the last callback of the DoIP library did: the
              \* acknowledgements and payloads handed to the connection
  pgns,       \* the keys of the Lua table `PGNs` (indices into PgnKeys)
  j1939,      \* what the last call of J1939Simulator::processReceivedData
              \* did: the datagram, the response found and the messages sent
  pgnTable,   \* the entries of the Lua table `PGNs` without '#', one per
              \* periodic sender thread
  cyclic,     \* the threads running J1939Simulator::sendCyclicMessage: where
              \* each one is and what its current iteration did
  receiver,   \* the thread running J1939Simulator::readDataThread
  sim,        \* the J1939Simulator object: isOnExit_, receive_skt_, whether it
              \* was deleted and whether the process has exited
  shutdown,   \* start_server waiting in waitForSimulationEnd and the SIGINT
              \* handler
  luaLock,    \* EcuLuaScript::luaLock_: the thread that holds it, or "none"
  threads,    \* the threads that use one ECU script: the UDS, DoIP and J1939
              \* receive threads and a periodic sender; where each one is
  inbox,      \* per front the requests that arrived and are not yet read
  emitted,    \* what the last step sent, on which front and why
  sessionUser,  \* the thread that read or wrote the UDS session in the last
              \* step, or "none"
  doipServer, \* the DoIP server as the script sees it: registered or not,
              \* with a connection or not; whether the process crashed
  receivedDataBytes,  \* the static string getDataBytes appends to
  hashCall,   \* what the last call of getDataBytes or createHash did, and
              \* what each script passed to getDataBytes since its last
              \* createHash
  startup,    \* start_server for one script: what the command line and the
              \* script configure, the simulators created, what was
              \* registered with the script, the last helper a callable
              \* called and whether the process ended there
  tcp         \* DoIPSimServer::doipConnection: the connection the handle
              \* owns (0: none), the connections not yet destroyed, where
              \* listenTcp is, and the connection each thread is using

treeVars == <<table, pending, processed, ignored, tree, pc, probe>>

udsVars == <<session, securityAccessType, uds>>

doipVars == <<ecus, doip>>

j1939Vars == <<pgns, j1939>>

threadVars == <<pgnTable, cyclic, receiver, sim, shutdown>>

scriptVars == <<luaLock, threads, inbox, emitted, sessionUser, doipServer>>

globalVars == <<receivedDataBytes, hashCall, startup, tcp>>

vars == <<table, pending, processed, ignored, tree, pc, probe,
          session, securityAccessType, uds, ecus, doip, pgns, j1939,
          pgnTable, cyclic, receiver, sim, shutdown,
          luaLock, threads, inbox, emitted, sessionUser, doipServer,
          receivedDataBytes, hashCall, startup, tcp>>

NoUds == [done |-> FALSE, req |-> <<>>, response |-> [has |-> FALSE, str |-> <<>>],
          sends |-> <<>>, ctrl |-> <<>>]

InitUdsState ==
  /\ session = "DEFAULT"
  /\ securityAccessType = 0
  /\ uds = NoUds

NoDoip == [done |-> FALSE, kind |-> "none", address |-> 0, data |-> <<>>,
           response |-> [has |-> FALSE, str |-> <<>>],
           acks |-> <<>>, result |-> FALSE, sends |-> <<>>]

\* No DoIP simulator is registered.
InitDoipState ==
  /\ ecus = <<>>
  /\ doip = NoDoip

NoJ1939 == [done |-> FALSE, pgn |-> 0, sourceAddress |-> 0, buffer |-> <<>>,
            pgnResponse |-> <<>>, sends |-> <<>>]

\* No J1939 simulator runs.
\* The UDS state of an ECU when a request arrives on one of its other
\* fronts: the UDS front may have switched the session before; nothing
\* writes securityAccessType_.
UdsStateOnArrival ==
  /\ session \in {"DEFAULT", "PROGRAMMING", "EXTENDED"}
  /\ securityAccessType = 0
  /\ uds = NoUds

InitJ1939State ==
  /\ pgns = {}
  /\ j1939 = NoJ1939

\* No thread of a J1939 simulator runs.
InitThreadState ==
  /\ pgnTable = <<>>
  /\ cyclic = <<>>
  /\ receiver = [pc |-> "none", received |-> FALSE]
  /\ sim = [isOnExit |-> FALSE, receive_skt |-> "closed", deleted |-> FALSE,
            exited |-> FALSE]
  /\ shutdown = [wait |-> "none", i |-> 0, handler |-> "none"]

\* No thread uses a script.
InitScriptState ==
  /\ luaLock = "none"
  /\ threads = <<>>
  /\ inbox = <<>>
  /\ emitted = {}
  /\ sessionUser = "none"
  /\ doipServer = [registered |-> FALSE, connection |-> "none", crashed |-> FALSE]

NoHashCall == [ecu |-> "none", op |-> "none", result |-> <<>>, own |-> <<>>,
               previous |-> "none", passed |-> <<>>, calls |-> 0,
               terminated |-> FALSE]

\* The threads that evaluate a script or use the DoIP connection: the
\* receive threads of the UDS and J1939 fronts and the thread running
\* DoIPSimServer::listenTcp, in which the DoIP library calls back.
FrontThreads == {"uds", "j1939", "listener"}

NoHelperCall == [by |-> "none", helper |-> "none", pSessionCtrl_ |-> FALSE]

NoUse == [fn |-> "none", handle |-> -1]

NoStartup ==
  [device |-> FALSE, hasUds |-> FALSE, hasJ1939 |-> FALSE, hasDoip |-> FALSE,
   started |-> FALSE, udsSimulator |-> FALSE, j1939Simulator |-> FALSE,
   doipSimulator |-> FALSE, pSessionCtrl_ |-> FALSE, pIsoTpSender_ |-> FALSE,
   pDoipSimServer_ |-> FALSE, helper |-> NoHelperCall, aborted |-> FALSE]

\* DoIPSimServer::DoIPSimServer: the handle is null.
NoTcp ==
  [doipConnection |-> 0, alive |-> {}, accepted |-> 0, listener |-> "accept",
   using |-> [u \in FrontThreads |-> NoUse]]

\* No script has called getDataBytes or createHash; start_server has not
\* run and no TCP client has connected.
InitGlobalState ==
  /\ receivedDataBytes = <<>>
  /\ hashCall = NoHashCall
  /\ startup = NoStartup
  /\ tcp = NoTcp

NoProbe == [done |-> FALSE, req |-> <<>>, result |-> NoResponse, intact |-> TRUE]

Tables == {T \in SUBSET KeyIds : Cardinality(T) <= MaxKeys}

Init ==
  /\ table \in Tables
  /\ pending = table
  /\ processed = <<>>
  /\ ignored = {}
  /\ tree = EmptyTree
  /\ pc = "build"
  /\ probe = NoProbe
  /\ InitUdsState
  /\ InitDoipState
  /\ InitJ1939State
  /\ InitThreadState
  /\ InitScriptState
  /\ InitGlobalState

\* buildRequestByteTree with the try block around the loop instead of inside
\* it: the first exception ends the loop.
BuildStep_CatchOutsideLoop(k) ==
  /\ pc = "build"
  /\ k \in pending
  /\ LET requestString == cleanupString(Keys[k])
         added == addRequestToTree(tree, requestString)
     IN  /\ tree' = IF added.ok THEN setLuaResponse(added.tree, added.leaf, k)
                    ELSE added.tree
         /\ ignored' = IF added.ok THEN ignored ELSE ignored \cup {k}
         /\ pending' = IF added.ok THEN pending \ {k} ELSE {}
  /\ processed' = Append(processed, k)
  /\ UNCHANGED <<table, pc, probe>>
  /\ UNCHANGED udsVars
  /\ UNCHANGED doipVars
  /\ UNCHANGED j1939Vars
  /\ UNCHANGED threadVars
  /\ UNCHANGED <<scriptVars, globalVars>>

\* One iteration of the loop of EcuLuaScript::buildRequestByteTree: the key
\* is cleaned, its response fetched, the request added and the response
\* bound; any exception is caught and the key is ignored.
BuildStep(k) ==
  /\ pc = "build"
  /\ k \in pending
  /\ LET requestString == cleanupString(Keys[k])
         added == addRequestToTree(tree, requestString)
     IN  /\ tree' = IF added.ok THEN setLuaResponse(added.tree, added.leaf, k)
                    ELSE added.tree
         /\ ignored' = IF added.ok THEN ignored ELSE ignored \cup {k}
  /\ pending' = pending \ {k}
  /\ processed' = Append(processed, k)
  /\ UNCHANGED <<table, pc, probe>>
  /\ UNCHANGED udsVars
  /\ UNCHANGED doipVars
  /\ UNCHANGED j1939Vars
  /\ UNCHANGED threadVars
  /\ UNCHANGED <<scriptVars, globalVars>>

\* buildRequestByteTree returns the tree.
BuildReturn ==
  /\ pc = "build"
  /\ pending = {}
  /\ pc' = "ready"
  /\ UNCHANGED <<table, pending, processed, ignored, tree, probe>>
  /\ UNCHANGED udsVars
  /\ UNCHANGED doipVars
  /\ UNCHANGED j1939Vars
  /\ UNCHANGED threadVars
  /\ UNCHANGED <<scriptVars, globalVars>>

\* A lookup of request r in the finished tree (getValueFromTree).  A lookup
\* leaves the tree as it is, so one lookup per behaviour reaches every pair
\* of a finished tree and a lookup in it.
Match(r) ==
  /\ pc = "ready"
  /\ pc' = "looked"
  /\ \E v \in Views(tree, r) :
       LET cands == FinalCandidates(tree, v, r)
       IN  \E order \in Orders(cands) :
             probe' = [done   |-> TRUE,
                       req    |-> r,
                       result |-> getValueFromTree(tree, v, r, order),
                       intact |-> v = IntactView(tree, r)]
  /\ UNCHANGED <<table, pending, processed, ignored, tree>>
  /\ UNCHANGED udsVars
  /\ UNCHANGED doipVars
  /\ UNCHANGED j1939Vars
  /\ UNCHANGED threadVars
  /\ UNCHANGED <<scriptVars, globalVars>>

Next ==
  \/ \E k \in KeyIds : BuildStep(k)
  \/ BuildReturn
  \/ \E r \in Requests : Match(r)

Spec == Init /\ [][Next]_vars

\* The build alone, of larger tables.
InitBuild ==
  /\ table \in {T \in SUBSET KeyIds : Cardinality(T) <= MaxBuildKeys}
  /\ pending = table
  /\ processed = <<>>
  /\ ignored = {}
  /\ tree = EmptyTree
  /\ pc = "build"
  /\ probe = NoProbe
  /\ InitUdsState
  /\ InitDoipState
  /\ InitJ1939State
  /\ InitThreadState
  /\ InitScriptState
  /\ InitGlobalState

NextBuild ==
  \/ \E k \in KeyIds : BuildStep(k)
  \/ BuildReturn

SpecBuild == InitBuild /\ [][NextBuild]_vars

\* ------------------------------------------------------------ UDS front
\* UDS service identifiers and response codes.
READ_DATA_BY_IDENTIFIER_REQ == 34

READ_DATA_BY_IDENTIFIER_RES == 98

DIAGNOSTIC_SESSION_CONTROL_REQ == 16

DIAGNOSTIC_SESSION_CONTROL_RES == 80

SECURITY_ACCESS_REQ == 39

SECURITY_ACCESS_RES == 103

ERROR == 127

SERVICE_NOT_SUPPORTED == 17

\* The Raw tables of the UDS behaviours, and what their entries hold: the
\* entry of key 11 is a Lua function, the entry of key 3 the empty string,
\* the entry of key 12 the string "67".
UdsTables == {{}, {1}, {3}, {11}, {12}, {1, 3}, {1, 11}, {3, 11}}

RawIsFunction(k) == k = 11

RawString(k) ==
  CASE k = 1 -> <<"6","2"," ","F","1"," ","0","1">>
    [] k = 3 -> <<>>
    [] k = 12 -> <<"6","7">>
    [] OTHER -> <<"0","0">>

\* What a Lua function of the Raw table may return.
FunctionResults == {<<>>, <<"7","F"," ","2","2">>}

\* The requests received on the UDS front.
UdsRequests ==
  {<<34, 241>>, <<34, 241, 144>>, <<34>>, <<34, 0, 0>>, <<34, 241, 145>>,
   <<34, 241, 146>>,
   <<16, 1>>, <<16, 2>>, <<16, 3>>, <<16, 5>>, <<39, 1>>, <<39, 2>>, <<39, 3>>,
   <<39, 0>>, <<39, 255>>, <<39, 241>>,
   <<62, 0>>}

\* buffer[i] of the receive buffer (0-based); the ISO-TP layer fills a short
\* request up with zero bytes.
BufferAt(buffer, i) == IF i + 1 <= Len(buffer) THEN buffer[i + 1] ELSE 0

\* EcuLuaScript::toByteResponse for len < 4: the low len bytes of value in
\* upper-case hex, most significant first, separated by one space.
RECURSIVE toByteResponse(_, _)
toByteResponse(value, len) ==
  IF len = 0 THEN <<>>
  ELSE LET byte == (value \div (256 ^ (len - 1))) % 256
           pair == <<HEX_LUT[(byte \div 16) + 1], HEX_LUT[(byte % 16) + 1]>>
       IN  IF len = 1 THEN pair
           ELSE pair \o <<" ">> \o toByteResponse(value, len - 1)

\* The ReadDataByIdentifier tables of the script: the top-level one
\* ("Default") and the ones of the sub-tables Programming and Extended.  A
\* value is the string the script holds, as character codes; F1 92 of the
\* top-level table holds the empty string.
ReadDataByIdentifierTables ==
  { [name |-> "Default",     key |-> <<"F","1"," ","9","0">>, value |-> <<65, 66>>],
    [name |-> "Default",     key |-> <<"F","1"," ","9","2">>, value |-> <<>>],
    [name |-> "Extended",    key |-> <<"F","1"," ","9","0">>, value |-> <<65, 66>>],
    [name |-> "Extended",    key |-> <<"F","1"," ","9","1">>, value |-> <<67>>],
    [name |-> "Programming", key |-> <<"F","1"," ","9","1">>, value |-> <<68>>] }

\* EcuLuaScript::getDataByIdentifier: the field of the ReadDataByIdentifier
\* table of the session (an absent field converts to the empty string).
getDataByIdentifier(identifier, sessionName) ==
  LET fields == {e \in ReadDataByIdentifierTables :
                   e.name = sessionName /\ e.key = identifier}
  IN  IF fields = {} THEN <<>> ELSE (CHOOSE e \in fields : TRUE).value

\* EcuLuaScript::getRawResponse: the optionals a lookup of payload may
\* return.  No match: the empty optional.  A match: the string of the
\* entry, or what the function of the entry returns.
getRawResponse(t, payload) ==
  UNION {
    LET cands == FinalCandidates(t, v, payload)
    IN  UNION {
          LET val == getValueFromTree(t, v, payload, order)
          IN  IF val = NoResponse
              THEN {[has |-> FALSE, str |-> <<>>]}
              ELSE IF RawIsFunction(val)
                   THEN {[has |-> TRUE, str |-> f] : f \in FunctionResults}
                   ELSE {[has |-> TRUE, str |-> RawString(val)]}
          : order \in Orders(cands)}
    : v \in Views(t, payload)}

\* UdsReceiver::readDataByIdentifier reading the top-level table in every
\* session.
readDataByIdentifier_TopLevelTableOnly(buffer) ==
  LET dataIdentifier == (BufferAt(buffer, 1) * 256 + BufferAt(buffer, 2)) % 65536
      data == getDataByIdentifier(toByteResponse(dataIdentifier, 2), "Default")
  IN  IF data # <<>>
      THEN <<READ_DATA_BY_IDENTIFIER_RES, BufferAt(buffer, 1), BufferAt(buffer, 2)>> \o data
      ELSE <<ERROR, 34, SERVICE_NOT_SUPPORTED>>

\* UdsReceiver::readDataByIdentifier: the frame it sends.
readDataByIdentifier(buffer) ==
  LET dataIdentifier == (BufferAt(buffer, 1) * 256 + BufferAt(buffer, 2)) % 65536
      identifier == toByteResponse(dataIdentifier, 2)
      data == IF session = "PROGRAMMING"
              THEN getDataByIdentifier(identifier, "Programming")
              ELSE IF session = "EXTENDED"
                   THEN getDataByIdentifier(identifier, "Extended")
                   ELSE getDataByIdentifier(identifier, "Default")
  IN  IF data # <<>>
      THEN <<READ_DATA_BY_IDENTIFIER_RES, BufferAt(buffer, 1), BufferAt(buffer, 2)>> \o data
      ELSE <<ERROR, 34, SERVICE_NOT_SUPPORTED>>

\* UdsReceiver::diagnosticSessionControl without the break of case 0x01: the
\* request for the default session falls through to the Programming case.
diagnosticSessionControl_MissingBreak(buffer) ==
  LET sessionId == BufferAt(buffer, 1)
  IN  [ session |-> CASE sessionId \in {1, 2} -> "PROGRAMMING"
                      [] sessionId = 3 -> "EXTENDED"
                      [] OTHER -> session,
        ctrl    |-> IF sessionId \in {1, 2, 3} THEN <<"start">> ELSE <<>>,
        sends   |-> << <<DIAGNOSTIC_SESSION_CONTROL_RES, sessionId>> >> ]

\* UdsReceiver::diagnosticSessionControl with a default case that rejects
\* the request.
diagnosticSessionControl_InvalidRejected(buffer) ==
  LET sessionId == BufferAt(buffer, 1)
  IN  [ session |-> CASE sessionId = 1 -> "DEFAULT"
                      [] sessionId = 2 -> "PROGRAMMING"
                      [] sessionId = 3 -> "EXTENDED"
                      [] OTHER -> session,
        ctrl    |-> IF sessionId \in {2, 3} THEN <<"start">> ELSE <<>>,
        sends   |-> IF sessionId \in {1, 2, 3}
                    THEN << <<DIAGNOSTIC_SESSION_CONTROL_RES, sessionId>> >>
                    ELSE << <<ERROR, DIAGNOSTIC_SESSION_CONTROL_REQ, SERVICE_NOT_SUPPORTED>> >> ]

\* UdsReceiver::diagnosticSessionControl: the session it sets, the calls it
\* makes on the session controller and the frame it sends.
diagnosticSessionControl(buffer) ==
  LET sessionId == BufferAt(buffer, 1)
  IN  [ session |-> CASE sessionId = 1 -> "DEFAULT"
                      [] sessionId = 2 -> "PROGRAMMING"
                      [] sessionId = 3 -> "EXTENDED"
                      [] OTHER -> session,
        ctrl    |-> IF sessionId \in {2, 3} THEN <<"start">> ELSE <<>>,
        sends   |-> << <<DIAGNOSTIC_SESSION_CONTROL_RES, sessionId>> >> ]

\* EcuLuaScript::getSeed: the field of the Seed table for the level, the
\* empty string when the script holds none.  The script of the model holds a
\* seed for level 1 only.
getSeed(seed_level) == IF seed_level = 1 THEN <<49, 50, 51>> ELSE <<>>

\* UdsReceiver::securityAccess: the frames it would send and the value it
\* would leave in securityAccessType_.  The seed is appended without its
\* last character.
securityAccess(buffer) ==
  LET seedId == BufferAt(buffer, 1)
      seed == getSeed(seedId)
  IN  IF seed # <<>>
      THEN [ sends |-> << <<SECURITY_ACCESS_REQ, seedId>> \o SubSeq(seed, 1, Len(seed) - 1) >>,
             securityAccessType |-> (seedId + 1) % 256 ]
      ELSE IF securityAccessType = seedId
           THEN [ sends |-> << <<SECURITY_ACCESS_RES>> >>, securityAccessType |-> 0 ]
           ELSE [ sends |-> << <<ERROR, 39, SERVICE_NOT_SUPPORTED>> >>,
                  securityAccessType |-> securityAccessType ]

\* The default case of UdsReceiver::proceedReceivedData: the reply to a
\* service that has no handler, with the service identifier of the request
\* replaced by the one of ReadDataByIdentifier.
serviceNotSupported_FixedService(udsServiceIdentifier) ==
  <<ERROR, READ_DATA_BY_IDENTIFIER_REQ, SERVICE_NOT_SUPPORTED>>

\* The default case of UdsReceiver::proceedReceivedData: the reply to a
\* service that has no handler.
serviceNotSupported(udsServiceIdentifier) ==
  <<ERROR, udsServiceIdentifier, SERVICE_NOT_SUPPORTED>>

\* UdsReceiver::proceedReceivedData with the call of securityAccess in the
\* case of SECURITY_ACCESS_REQ.
UdsReceive_SecurityAccessCalled(buffer) ==
  /\ pc = "ready"
  /\ LET udsServiceIdentifier == BufferAt(buffer, 0)
     IN  \E response \in getRawResponse(tree, buffer) :
           IF response.has
           THEN /\ uds' = [done |-> TRUE, req |-> buffer, response |-> response,
                           sends |-> << literalHexStrToBytes(response.str) >>,
                           ctrl |-> <<"reset">>]
                /\ session' = session
           ELSE CASE udsServiceIdentifier = READ_DATA_BY_IDENTIFIER_REQ ->
                       /\ uds' = [done |-> TRUE, req |-> buffer, response |-> response,
                                  sends |-> << readDataByIdentifier(buffer) >>,
                                  ctrl |-> <<"reset">>]
                       /\ session' = session
                  [] udsServiceIdentifier = DIAGNOSTIC_SESSION_CONTROL_REQ ->
                       LET dsc == diagnosticSessionControl(buffer)
                       IN  /\ uds' = [done |-> TRUE, req |-> buffer,
                                      response |-> response,
                                      sends |-> dsc.sends, ctrl |-> dsc.ctrl]
                           /\ session' = dsc.session
                  [] udsServiceIdentifier = SECURITY_ACCESS_REQ ->
                       /\ uds' = [done |-> TRUE, req |-> buffer, response |-> response,
                                  sends |-> securityAccess(buffer).sends, ctrl |-> <<>>]
                       /\ session' = session
                  [] OTHER ->
                       /\ uds' = [done |-> TRUE, req |-> buffer, response |-> response,
                                  sends |-> << serviceNotSupported(udsServiceIdentifier) >>,
                                  ctrl |-> <<>>]
                       /\ session' = session
  /\ securityAccessType' =
       IF ~uds'.response.has /\ BufferAt(buffer, 0) = SECURITY_ACCESS_REQ
       THEN securityAccess(buffer).securityAccessType
       ELSE securityAccessType
  /\ UNCHANGED treeVars
  /\ UNCHANGED doipVars
  /\ UNCHANGED j1939Vars
  /\ UNCHANGED threadVars
  /\ UNCHANGED <<scriptVars, globalVars>>

\* UdsReceiver::proceedReceivedData on the request buffer.  The call of
\* securityAccess is commented out: a SecurityAccess request without a Raw
\* match is dropped.
UdsReceive(buffer) ==
  /\ pc = "ready"
  /\ LET udsServiceIdentifier == BufferAt(buffer, 0)
     IN  \E response \in getRawResponse(tree, buffer) :
           IF response.has
           THEN /\ uds' = [done |-> TRUE, req |-> buffer, response |-> response,
                           sends |-> << literalHexStrToBytes(response.str) >>,
                           ctrl |-> <<"reset">>]
                /\ session' = session
           ELSE CASE udsServiceIdentifier = READ_DATA_BY_IDENTIFIER_REQ ->
                       /\ uds' = [done |-> TRUE, req |-> buffer, response |-> response,
                                  sends |-> << readDataByIdentifier(buffer) >>,
                                  ctrl |-> <<"reset">>]
                       /\ session' = session
                  [] udsServiceIdentifier = DIAGNOSTIC_SESSION_CONTROL_REQ ->
                       LET dsc == diagnosticSessionControl(buffer)
                       IN  /\ uds' = [done |-> TRUE, req |-> buffer,
                                      response |-> response,
                                      sends |-> dsc.sends, ctrl |-> dsc.ctrl]
                           /\ session' = dsc.session
                  [] udsServiceIdentifier = SECURITY_ACCESS_REQ ->
                       /\ uds' = [done |-> TRUE, req |-> buffer, response |-> response,
                                  sends |-> <<>>, ctrl |-> <<>>]
                       /\ session' = session
                  [] OTHER ->
                       /\ uds' = [done |-> TRUE, req |-> buffer, response |-> response,
                                  sends |-> << serviceNotSupported(udsServiceIdentifier) >>,
                                  ctrl |-> <<>>]
                       /\ session' = session
  /\ UNCHANGED securityAccessType
  /\ UNCHANGED treeVars
  /\ UNCHANGED doipVars
  /\ UNCHANGED j1939Vars
  /\ UNCHANGED threadVars
  /\ UNCHANGED <<scriptVars, globalVars>>

\* The UDS front: the receiver builds its tree from the Raw table, then
\* handles one request after another.
InitUds ==
  /\ table \in UdsTables
  /\ pending = table
  /\ processed = <<>>
  /\ ignored = {}
  /\ tree = EmptyTree
  /\ pc = "build"
  /\ probe = NoProbe
  /\ InitUdsState
  /\ InitDoipState
  /\ InitJ1939State
  /\ InitThreadState
  /\ InitScriptState
  /\ InitGlobalState

NextUds ==
  \/ \E k \in KeyIds : BuildStep(k)
  \/ BuildReturn
  \/ \E buffer \in UdsRequests : UdsReceive(buffer)

SpecUds == InitUds /\ [][NextUds]_vars

\* ----------------------------------------------------------- DoIP front
\* The logical addresses of the DoIP behaviours: two that simulators use and
\* one that none uses.
DoipAddresses == {3584, 3585, 3586}

\* The orders in which the Raw table of a DoIP simulator is visited when its
\* tree is built.
DoipRawTables == {<<>>, <<1>>, <<3>>, <<1, 3>>, <<11>>}

\* DoIPSimulator::DoIPSimulator: the logical address of the script and the
\* tree built from its Raw table.
DoIPSimulator(address, order) ==
  [logicalEcuAddress |-> address, requestByteTree |-> TreeOf(EmptyTree, order, 1)]

\* The lists of simulators main registers with DoIPSimServer::addECU.
DoipConfigurations ==
  LET Simulators == {DoIPSimulator(a, o) : a \in {3584, 3585}, o \in DoipRawTables}
  IN  {<<>>} \cup {<<e>> : e \in Simulators}
             \cup {<<e1, e2>> : e1 \in Simulators, e2 \in Simulators}

\* The payloads of the diagnostic messages received.
DoipRequests ==
  {<<>>, <<34>>, <<34, 241>>, <<34, 241, 144>>, <<16, 2>>, <<16, 3>>, <<62, 0>>}

\* DoIPSimServer::findECU with the break outside the test: the loop ends
\* after the first simulator.
findECU_FirstOnly(logicalEcuAddress) ==
  IF Len(ecus) > 0 /\ ecus[1].logicalEcuAddress = logicalEcuAddress THEN 1 ELSE -1

\* DoIPSimServer::findECU: the index of the first simulator with the
\* logical address, -1 when there is none.
findECU(logicalEcuAddress) ==
  LET found == {i \in 1..Len(ecus) : ecus[i].logicalEcuAddress = logicalEcuAddress}
  IN  IF found = {} THEN -1
      ELSE CHOOSE i \in found : \A j \in found : i <= j

\* DoIPSimServer::diagnosticMessageReceived.
DiagnosticMessageReceived(targetAddress) ==
  /\ pc = "doip"
  /\ doip' = IF findECU(targetAddress) = -1
             THEN [done |-> TRUE, kind |-> "notify", address |-> targetAddress,
                   data |-> <<>>, response |-> [has |-> FALSE, str |-> <<>>],
                   acks |-> << [address |-> targetAddress, positive |-> FALSE,
                                ackCode |-> 3] >>,
                   result |-> FALSE, sends |-> <<>>]
             ELSE [done |-> TRUE, kind |-> "notify", address |-> targetAddress,
                   data |-> <<>>, response |-> [has |-> FALSE, str |-> <<>>],
                   acks |-> << [address |-> targetAddress, positive |-> TRUE,
                                ackCode |-> 0] >>,
                   result |-> TRUE, sends |-> <<>>]
  /\ UNCHANGED <<ecus>>
  /\ UNCHANGED treeVars
  /\ UNCHANGED udsVars
  /\ UNCHANGED j1939Vars
  /\ UNCHANGED threadVars
  /\ UNCHANGED <<scriptVars, globalVars>>

\* DoIPSimulator::proceedDoIPData with the built-in handler of
\* ReadDataByIdentifier consulted on a miss.
proceedDoIPData_WithUdsHandler(response, buffer) ==
  IF response.has
  THEN literalHexStrToBytes(response.str)
  ELSE IF Len(buffer) > 0 /\ buffer[1] = READ_DATA_BY_IDENTIFIER_REQ
       THEN readDataByIdentifier(buffer)
       ELSE <<ERROR, IF Len(buffer) > 0 THEN buffer[1] ELSE 0, SERVICE_NOT_SUPPORTED>>

\* DoIPSimulator::proceedDoIPData, given the optional getRawResponse
\* returned: the bytes of the answer.
proceedDoIPData(response, buffer) ==
  IF response.has
  THEN literalHexStrToBytes(response.str)
  ELSE <<ERROR, IF Len(buffer) > 0 THEN buffer[1] ELSE 0, SERVICE_NOT_SUPPORTED>>

\* DoIPSimServer::receiveFromLibrary with the built-in handler of
\* DiagnosticSessionControl of the UDS front consulted on a miss.
ReceiveFromLibrary_SessionControl(address, data) ==
  /\ pc = "doip"
  /\ LET index == findECU(address)
     IN  IF index # -1
         THEN \E rawResponse \in getRawResponse(ecus[index].requestByteTree, data) :
                LET builtIn == ~rawResponse.has /\ Len(data) > 0
                                 /\ data[1] = DIAGNOSTIC_SESSION_CONTROL_REQ
                    dsc == diagnosticSessionControl(data)
                    response == IF builtIn THEN dsc.sends[1]
                                ELSE proceedDoIPData(rawResponse, data)
                    logicalAddress == ecus[index].logicalEcuAddress
                IN  /\ doip' = [done |-> TRUE, kind |-> "data", address |-> address,
                                data |-> data, response |-> rawResponse,
                                acks |-> <<>>, result |-> FALSE,
                                sends |-> IF Len(response) > 0
                                          THEN << [source |-> logicalAddress,
                                                   payload |-> response] >>
                                          ELSE <<>>]
                    /\ session' = IF builtIn THEN dsc.session ELSE session
         ELSE /\ doip' = [done |-> TRUE, kind |-> "data", address |-> address,
                          data |-> data, response |-> [has |-> FALSE, str |-> <<>>],
                          acks |-> <<>>, result |-> FALSE, sends |-> <<>>]
              /\ session' = session
  /\ UNCHANGED <<ecus, securityAccessType, uds>>
  /\ UNCHANGED treeVars
  /\ UNCHANGED j1939Vars
  /\ UNCHANGED threadVars
  /\ UNCHANGED <<scriptVars, globalVars>>

\* DoIPSimServer::receiveFromLibrary, with sendDiagnosticResponse: the
\* answer of the first simulator with the address is handed to the
\* connection unless it has no bytes.
ReceiveFromLibrary(address, data) ==
  /\ pc = "doip"
  /\ LET index == findECU(address)
     IN  IF index # -1
         THEN \E rawResponse \in getRawResponse(ecus[index].requestByteTree, data) :
                LET response == proceedDoIPData(rawResponse, data)
                    logicalAddress == ecus[index].logicalEcuAddress
                IN  doip' = [done |-> TRUE, kind |-> "data", address |-> address,
                             data |-> data, response |-> rawResponse,
                             acks |-> <<>>, result |-> FALSE,
                             sends |-> IF Len(response) > 0
                                       THEN << [source |-> logicalAddress,
                                                payload |-> response] >>
                                       ELSE <<>>]
         ELSE doip' = [done |-> TRUE, kind |-> "data", address |-> address,
                       data |-> data, response |-> [has |-> FALSE, str |-> <<>>],
                       acks |-> <<>>, result |-> FALSE, sends |-> <<>>]
  /\ UNCHANGED <<ecus>>
  /\ UNCHANGED treeVars
  /\ UNCHANGED udsVars
  /\ UNCHANGED j1939Vars
  /\ UNCHANGED threadVars
  /\ UNCHANGED <<scriptVars, globalVars>>

\* The DoIP front: the simulators are registered, then the library calls
\* back for every diagnostic message.
InitDoip ==
  /\ table = {}
  /\ pending = {}
  /\ processed = <<>>
  /\ ignored = {}
  /\ tree = EmptyTree
  /\ pc = "doip"
  /\ probe = NoProbe
  /\ UdsStateOnArrival
  /\ ecus \in DoipConfigurations
  /\ doip = NoDoip
  /\ InitJ1939State
  /\ InitThreadState
  /\ InitScriptState
  /\ InitGlobalState

NextDoip ==
  \/ \E targetAddress \in DoipAddresses : DiagnosticMessageReceived(targetAddress)
  \/ \E address \in DoipAddresses : \E data \in DoipRequests :
       ReceiveFromLibrary(address, data)

SpecDoip == InitDoip /\ [][NextDoip]_vars

\* ---------------------------------------------------------- J1939 front
J1939_PGN_REQUESTPGN == 59904

J1939_PGN_ACKPGN == 59392

J1939_BROADCAST_ID == 255

\* The keys the table PGNs of a script may hold, and the response of each.
\* Keys with '#' are payload-matched patterns, the others name a PGN.
PgnKeys ==
  << <<"0","0"," ","E","A"," ","0","0"," ","#"," ","0","1">>,
     <<"0","0"," ","E","A"," ","0","0"," ","#"," ","0","2">>,
     <<"0","0"," ","E","A"," ","0","0"," ","#"," ","0","3">>,
     <<"0","0"," ","E","A"," ","0","0"," ","#"," ","0","4">>,
     <<"0","0"," ","E","A"," ","0","0"," ","#"," ","0","5">>,
     <<"0","0"," ","E","A"," ","0","0"," ","#"," ","0","6">>,
     <<"C","A"," ","F","E"," ","0","0"," ","#"," ","0","1">>,
     <<"E","E"," ","F","E"," ","0","0">>,
     <<"6","5","2","6","3">> >>

PgnValues ==
  << <<"A","C","K">>,
     <<"A","C","K"," ","0","1">>,
     <<"A","C","K"," ","0","1"," ","0","2">>,
     <<"E","E"," ","F","E"," ","0","0"," ","#"," ","0","A"," ","0","B">>,
     <<"0","C"," ","0","D">>,
     <<"A","C","K"," ","0","1"," ","#"," ","0","2">>,
     <<"A","C","K"," ","0","3">>,
     <<"1","1"," ","2","2">>,
     <<"3","3">> >>

\* The tables PGNs of the scripts.
PgnTables == {{}, {1, 2, 3, 8}, {4, 5, 7, 9}, {6, 8, 9}, {1, 4, 6, 7, 8}, {3, 5, 9}}

\* The datagrams received: the PGN, the address of the sender, the payload.
J1939Pgns == {59904, 65226}

J1939Addresses == {32, 249}

J1939Payloads ==
  {<<>>, <<1>>, <<2>>, <<3>>, <<4>>, <<5>>, <<6>>, <<16>>,
   <<238, 254, 0>>, <<239, 254, 0>>}

\* string::find_first_of(c): the first position of c, 0 when there is none.
find_first_of(str, c) ==
  IF \E i \in 1..Len(str) : str[i] = c
  THEN CHOOSE i \in 1..Len(str) : str[i] = c /\ \A k \in 1..(i - 1) : str[k] # c
  ELSE 0

\* string::substr(pos, count) with pos <= size: at most count characters
\* from the 0-based position pos on.
substr(str, pos, count) ==
  SubSeq(str, pos + 1, IF pos + count < Len(str) THEN pos + count ELSE Len(str))

\* EcuLuaScript::intToHexString: two upper-case hex digits per byte, one
\* space between bytes.
RECURSIVE intToHexString(_)
intToHexString(buffer) ==
  IF buffer = <<>> THEN <<>>
  ELSE LET pair == <<HEX_LUT[(buffer[1] \div 16) + 1], HEX_LUT[(buffer[1] % 16) + 1]>>
       IN  IF Len(buffer) = 1 THEN pair
           ELSE pair \o <<" ">> \o intToHexString(Tail(buffer))

\* The three bytes of a PGN, least significant first.
PgnBytes(pgn) == <<pgn % 256, (pgn \div 256) % 256, (pgn \div 65536) % 256>>

\* strtol(str, NULL, 10) on a string without sign: leading white space is
\* skipped, the decimal digits that follow are converted, anything else
\* ends the number (no digit: 0).
RECURSIVE DecimalPrefix(_, _, _)
DecimalPrefix(str, i, acc) ==
  IF i <= Len(str) /\ str[i] \in {"0","1","2","3","4","5","6","7","8","9"}
  THEN DecimalPrefix(str, i + 1, 10 * acc + HexVal(str[i]))
  ELSE acc

RECURSIVE SkipSpace(_, _)
SkipSpace(str, i) ==
  IF i <= Len(str) /\ str[i] \in {" ", "\t"} THEN SkipSpace(str, i + 1) ELSE i

strtol10(str) == DecimalPrefix(str, SkipSpace(str, 1), 0)

\* The bytes put together in reverse order (little endian).
RECURSIVE LittleEndian(_)
LittleEndian(bytes) ==
  IF bytes = <<>> THEN 0 ELSE bytes[1] + 256 * LittleEndian(Tail(bytes))

\* J1939Simulator::parsePGN.
parsePGN(pgn) ==
  LET pgnNum == IF Len(pgn) < 6 THEN strtol10(pgn) ELSE 0
  IN  IF pgnNum = 0 \/ pgnNum > 99999
      THEN LET pgnBytes == literalHexStrToBytes(pgn)
           IN  IF Len(pgnBytes) <= 3 THEN LittleEndian(pgnBytes) ELSE 0
      ELSE pgnNum

\* EcuLuaScript::buildRequestByteTreeFromPGNTable: the tree of the keys that
\* contain '#'.
RECURSIVE PgnTreeOf(_, _, _)
PgnTreeOf(t, order, i) ==
  IF i > Len(order) THEN t
  ELSE LET added == addRequestToTree(t, cleanupString(PgnKeys[order[i]]))
       IN  PgnTreeOf(IF added.ok THEN setLuaResponse(added.tree, added.leaf, order[i])
                     ELSE added.tree, order, i + 1)

buildRequestByteTreeFromPGNTable(keys) ==
  PgnTreeOf(EmptyTree,
            SelectSeq([i \in 1..Len(PgnKeys) |-> i],
                      LAMBDA k : k \in keys /\ find_first_of(PgnKeys[k], "#") # 0),
            1)

\* EcuLuaScript::buildRequestPGNMap: the keys without '#', cleaned.
buildRequestPGNMap(keys) ==
  {[key |-> cleanupString(PgnKeys[k]), value |-> PgnValues[k]] :
     k \in {i \in keys : find_first_of(PgnKeys[i], "#") = 0}}

\* EcuLuaScript::getJ1939RequestPGNData: the payload of the entry whose
\* cleaned key is the cleaned request string, the empty string without one.
getJ1939RequestPGNData(pgnMap, pgn) ==
  LET items == {e \in pgnMap : e.key = cleanupString(pgn)}
  IN  IF items = {} THEN <<>> ELSE (CHOOSE e \in items : TRUE).value

\* EcuLuaScript::getJ1939Response: the responses a lookup of the PGN bytes
\* followed by the payload may return; the empty string without a match.
getJ1939Response(t, pgn, payload) ==
  LET lookupPayload == PgnBytes(pgn) \o payload
  IN  UNION {
        { LET val == getValueFromTree(t, v, lookupPayload, order)
          IN  IF val = NoResponse THEN <<>> ELSE PgnValues[val]
          : order \in Orders(FinalCandidates(t, v, lookupPayload)) }
        : v \in Views(t, lookupPayload)}

\* J1939Simulator::assembleACK with the bytes of the PGN most significant
\* first.
assembleACK_BigEndianPgn(ackInfoByteString, targetAddress, pgn) ==
  LET ackInfo == literalHexStrToBytes(ackInfoByteString)
  IN  << IF Len(ackInfo) > 0 THEN ackInfo[1] ELSE 0,
         IF Len(ackInfo) > 1 THEN ackInfo[2] ELSE 0,
         255, 255, targetAddress,
         (pgn \div 65536) % 256, (pgn \div 256) % 256, pgn % 256 >>

\* J1939Simulator::assembleACK.
assembleACK(ackInfoByteString, targetAddress, pgn) ==
  LET ackInfo == literalHexStrToBytes(ackInfoByteString)
  IN  << IF Len(ackInfo) > 0 THEN ackInfo[1] ELSE 0,
         IF Len(ackInfo) > 1 THEN ackInfo[2] ELSE 0,
         255, 255, targetAddress >> \o PgnBytes(pgn)

\* The part of J1939Simulator::processReceivedData that handles a response
\* found: the message it sends.
respond(pgnResponse, sourceAddress, pgn) ==
  LET separatorPos == find_first_of(pgnResponse, "#")
  IN  IF separatorPos # 0
      THEN [pgn |-> parsePGN(substr(pgnResponse, 0, separatorPos - 1)),
            addr |-> sourceAddress,
            payload |-> literalHexStrToBytes(
                          substr(pgnResponse, separatorPos, Len(pgnResponse)))]
      ELSE IF substr(pgnResponse, 0, 3) = <<"A","C","K">>
           THEN [pgn |-> J1939_PGN_ACKPGN, addr |-> J1939_BROADCAST_ID,
                 payload |-> assembleACK(substr(pgnResponse, 3, Len(pgnResponse)),
                                         sourceAddress, pgn)]
           ELSE [pgn |-> pgn, addr |-> sourceAddress,
                 payload |-> literalHexStrToBytes(pgnResponse)]

\* The part of J1939Simulator::processReceivedData that handles a request on
\* PGN 0xEA00 without response: the message it sends.
respondToRequestPgn(pgnMap, buffer, sourceAddress) ==
  LET pgnRequestPayload == intToHexString(buffer)
  IN  [pgn |-> parsePGN(pgnRequestPayload), addr |-> sourceAddress,
       payload |-> literalHexStrToBytes(
                     getJ1939RequestPGNData(pgnMap, pgnRequestPayload))]

\* J1939Simulator::processReceivedData on a datagram.
ProcessReceivedData(buffer, sourceAddress, pgn) ==
  /\ pc = "j1939"
  /\ \E pgnResponse \in getJ1939Response(buildRequestByteTreeFromPGNTable(pgns),
                                         pgn, buffer) :
       j1939' = [done |-> TRUE, pgn |-> pgn, sourceAddress |-> sourceAddress,
                 buffer |-> buffer, pgnResponse |-> pgnResponse,
                 sends |-> IF pgnResponse # <<>>
                           THEN << respond(pgnResponse, sourceAddress, pgn) >>
                           ELSE IF pgn = J1939_PGN_REQUESTPGN
                                THEN << respondToRequestPgn(buildRequestPGNMap(pgns),
                                                            buffer, sourceAddress) >>
                                ELSE <<>>]
  /\ UNCHANGED pgns
  /\ UNCHANGED treeVars
  /\ UNCHANGED udsVars
  /\ UNCHANGED doipVars
  /\ UNCHANGED threadVars
  /\ UNCHANGED <<scriptVars, globalVars>>

\* The J1939 front: the simulator of one script receives datagrams.
InitJ1939 ==
  /\ table = {}
  /\ pending = {}
  /\ processed = <<>>
  /\ ignored = {}
  /\ tree = EmptyTree
  /\ pc = "j1939"
  /\ probe = NoProbe
  /\ UdsStateOnArrival
  /\ InitDoipState
  /\ pgns \in PgnTables
  /\ j1939 = NoJ1939
  /\ InitThreadState
  /\ InitScriptState
  /\ InitGlobalState

NextJ1939 ==
  \E buffer \in J1939Payloads : \E sourceAddress \in J1939Addresses :
    \E pgn \in J1939Pgns : ProcessReceivedData(buffer, sourceAddress, pgn)

SpecJ1939 == InitJ1939 /\ [][NextJ1939]_vars

\* ------------------------------------------- the threads of a J1939 simulator
\* `int retries = 5` of J1939Simulator::sendCyclicMessage.
MaxRetries == 5

\* The threads startPeriodicSenderThreads starts: one per key of `PGNs`
\* without '#'.
Senders == {1, 2}

\* The values of the cycleTime field in the scripts.
CycleTimes == {0, 100}

\* What a key of `PGNs` without '#' is bound to: a plain value, a function,
\* or a table with or without the field cycleTime.
PgnTableEntries ==
  {[kind |-> "value", hasCycleTime |-> FALSE, cycleTime |-> 0],
   [kind |-> "function", hasCycleTime |-> FALSE, cycleTime |-> 0],
   [kind |-> "table", hasCycleTime |-> FALSE, cycleTime |-> 0]}
  \cup {[kind |-> "table", hasCycleTime |-> TRUE, cycleTime |-> c] : c \in CycleTimes}

\* EcuLuaScript::getJ1939RequestPGNData, the cycleTime of the result, with a
\* cycle time other than 0 where the entry has no field cycleTime.
PgnCycleTime_DefaultCycle(val) ==
  IF val.kind = "table" /\ val.hasCycleTime THEN val.cycleTime ELSE 100

\* EcuLuaScript::getJ1939RequestPGNData, the cycleTime of the result: 0 unless
\* the entry is a table with the field cycleTime.
PgnCycleTime(val) ==
  IF val.kind = "table" /\ val.hasCycleTime THEN val.cycleTime ELSE 0

\* The states can_get_state reports, and "unreadable" for its failure.
CanStates == {"ERROR_ACTIVE", "ERROR_WARNING", "ERROR_PASSIVE", "BUS_OFF", "unreadable"}

\* J1939Simulator::isBusActive, ERROR_PASSIVE taken as active too.
isBusActive_PassiveToo(state) ==
  state \in {"ERROR_ACTIVE", "ERROR_WARNING", "ERROR_PASSIVE"}

\* J1939Simulator::isBusActive on the state read.
isBusActive(state) ==
  IF state = "unreadable" THEN FALSE
  ELSE state = "ERROR_ACTIVE" \/ state = "ERROR_WARNING"

\* The outcomes of the non-blocking sendto.
SendResults == {"ok", "EAGAIN", "error"}

\* The retries left after a sendto of sendCyclicMessage, every failure
\* consuming one retry.
retriesAfter_RetryAnyError(retries, sendResult) ==
  IF sendResult = "ok" THEN 0 ELSE retries - 1

\* The retries left after a sendto of sendCyclicMessage.
retriesAfter(retries, sendResult) ==
  IF sendResult # "ok"
  THEN IF sendResult = "EAGAIN" THEN retries - 1 ELSE 0
  ELSE 0

\* A periodic sender thread at the start of sendCyclicMessage's loop.
NewSender ==
  [pc |-> "eval", cycleTime |-> 0, canState |-> "none", sendSkt |-> FALSE,
   retries |-> 0, attempts |-> 0, result |-> "none", sent |-> FALSE,
   checked |-> FALSE, slept |-> FALSE]

Running == ~sim.exited

\* sendCyclicMessage, top of the loop: the script is evaluated and the
\* thread returns when the cycle time is 0.
CyclicEvaluate(s) ==
  /\ Running
  /\ cyclic[s].pc = "eval"
  /\ LET cycleTime == PgnCycleTime(pgnTable[s])
     IN  cyclic' = [cyclic EXCEPT ![s] =
                      [@ EXCEPT !.cycleTime = cycleTime,
                                !.pc = IF cycleTime = 0 THEN "done" ELSE "bus"]]
  /\ UNCHANGED <<pgnTable, receiver, sim, shutdown>>
  /\ UNCHANGED <<treeVars, udsVars, doipVars, j1939Vars, scriptVars, globalVars>>

\* sendCyclicMessage, isBusActive: with the bus active a socket is opened
\* and the retries are set, else the thread goes on to its sleep.
CyclicCheckBus(s) ==
  /\ Running
  /\ cyclic[s].pc = "bus"
  /\ \E state \in CanStates :
       cyclic' = [cyclic EXCEPT ![s] =
                    IF isBusActive(state)
                    THEN [@ EXCEPT !.canState = state, !.checked = TRUE,
                                   !.slept = FALSE, !.sendSkt = TRUE,
                                   !.retries = MaxRetries, !.pc = "send"]
                    ELSE [@ EXCEPT !.canState = state, !.checked = TRUE,
                                   !.slept = FALSE, !.pc = "sleep"]]
  /\ UNCHANGED <<pgnTable, receiver, sim, shutdown>>
  /\ UNCHANGED <<treeVars, udsVars, doipVars, j1939Vars, scriptVars, globalVars>>

\* sendCyclicMessage, one turn of `while(retries > 0)`: a sendto and, after
\* EAGAIN or EWOULDBLOCK, the 50 ms back off.
CyclicSend(s) ==
  /\ Running
  /\ cyclic[s].pc = "send"
  /\ cyclic[s].retries > 0
  /\ \E sendResult \in SendResults :
       LET retries == retriesAfter(cyclic[s].retries, sendResult)
       IN  cyclic' = [cyclic EXCEPT ![s] =
                        [@ EXCEPT !.retries = retries,
                                  !.attempts = @ + 1,
                                  !.result = sendResult,
                                  !.canState = "none",
                                  !.sent = @ \/ sendResult = "ok",
                                  !.pc = IF retries > 0 THEN "send" ELSE "close"]]
  /\ UNCHANGED <<pgnTable, receiver, sim, shutdown>>
  /\ UNCHANGED <<treeVars, udsVars, doipVars, j1939Vars, scriptVars, globalVars>>

\* sendCyclicMessage, close(sendSkt) after the retry loop.
CyclicClose(s) ==
  /\ Running
  /\ cyclic[s].pc = "close"
  /\ cyclic' = [cyclic EXCEPT ![s] =
                  [@ EXCEPT !.sendSkt = FALSE, !.retries = 0, !.attempts = 0,
                            !.result = "none", !.pc = "sleep"]]
  /\ UNCHANGED <<pgnTable, receiver, sim, shutdown>>
  /\ UNCHANGED <<treeVars, udsVars, doipVars, j1939Vars, scriptVars, globalVars>>

\* sendCyclicMessage, usleep(1000 * cycleTime).
CyclicSleep(s) ==
  /\ Running
  /\ cyclic[s].pc = "sleep"
  /\ cyclic' = [cyclic EXCEPT ![s] =
                  [@ EXCEPT !.canState = "none", !.slept = TRUE, !.pc = "while"]]
  /\ UNCHANGED <<pgnTable, receiver, sim, shutdown>>
  /\ UNCHANGED <<treeVars, udsVars, doipVars, j1939Vars, scriptVars, globalVars>>

\* sendCyclicMessage, `while (!isOnExit_)`.
CyclicWhile(s) ==
  /\ Running
  /\ cyclic[s].pc = "while"
  /\ cyclic' = [cyclic EXCEPT ![s] =
                  [@ EXCEPT !.pc = IF sim.isOnExit THEN "done" ELSE "eval"]]
  /\ UNCHANGED <<pgnTable, receiver, sim, shutdown>>
  /\ UNCHANGED <<treeVars, udsVars, doipVars, j1939Vars, scriptVars, globalVars>>

\* The script changes the field cycleTime of an entry that has one.
ScriptSetsCycleTime(s) ==
  /\ Running
  /\ pgnTable[s].hasCycleTime
  /\ \E c \in CycleTimes :
       /\ c # pgnTable[s].cycleTime
       /\ pgnTable' = [pgnTable EXCEPT ![s] = [@ EXCEPT !.cycleTime = c]]
  /\ UNCHANGED <<cyclic, receiver, sim, shutdown>>
  /\ UNCHANGED <<treeVars, udsVars, doipVars, j1939Vars, scriptVars, globalVars>>

\* readDataThread calls recvfrom: on the closed socket it fails at once, on
\* the open one the thread blocks.
ReceiverRecvfrom ==
  /\ Running
  /\ receiver.pc = "recvfrom"
  /\ receiver' = [receiver EXCEPT !.pc = IF sim.receive_skt = "closed"
                                         THEN "while" ELSE "blocked"]
  /\ UNCHANGED <<pgnTable, cyclic, sim, shutdown>>
  /\ UNCHANGED <<treeVars, udsVars, doipVars, j1939Vars, scriptVars, globalVars>>

\* A datagram arrives for the blocked receive thread: recvfrom returns and
\* processReceivedData handles it.
ReceiverDatagram ==
  /\ Running
  /\ receiver.pc = "blocked"
  /\ receiver' = [receiver EXCEPT !.pc = "while", !.received = TRUE]
  /\ UNCHANGED <<pgnTable, cyclic, sim, shutdown>>
  /\ UNCHANGED <<treeVars, udsVars, doipVars, j1939Vars, scriptVars, globalVars>>

\* readDataThread, `while (!isOnExit_)`.
ReceiverWhile ==
  /\ Running
  /\ receiver.pc = "while"
  /\ receiver' = [receiver EXCEPT !.pc = IF sim.isOnExit THEN "done" ELSE "recvfrom"]
  /\ UNCHANGED <<pgnTable, cyclic, sim, shutdown>>
  /\ UNCHANGED <<treeVars, udsVars, doipVars, j1939Vars, scriptVars, globalVars>>

\* J1939Simulator::stopSimulation, called by the SIGINT handler:
\* closeReceiver sets isOnExit_ and closes the socket.  A recvfrom blocked on
\* the socket returns with an error or stays blocked.
StopSimulation ==
  /\ Running
  /\ shutdown.handler = "idle"
  /\ sim' = [sim EXCEPT !.isOnExit = TRUE, !.receive_skt = "closed"]
  /\ \E woken \in BOOLEAN :
       receiver' = IF receiver.pc = "blocked" /\ sim.receive_skt = "open" /\ woken
                   THEN [receiver EXCEPT !.pc = "while"]
                   ELSE receiver
  /\ shutdown' = [shutdown EXCEPT !.handler = "stopped"]
  /\ UNCHANGED <<pgnTable, cyclic>>
  /\ UNCHANGED <<treeVars, udsVars, doipVars, j1939Vars, scriptVars, globalVars>>

\* J1939Simulator::waitForSimulationEnd, called by start_server: the join of
\* the next periodic sender thread returns.
WaitJoinCyclic ==
  /\ Running
  /\ shutdown.wait = "joinCyclic"
  /\ cyclic[shutdown.i].pc = "done"
  /\ shutdown' = IF shutdown.i + 1 \in Senders
                 THEN [shutdown EXCEPT !.i = @ + 1]
                 ELSE [shutdown EXCEPT !.wait = "joinReceiver"]
  /\ UNCHANGED <<pgnTable, cyclic, receiver, sim>>
  /\ UNCHANGED <<treeVars, udsVars, doipVars, j1939Vars, scriptVars, globalVars>>

\* waitForSimulationEnd: the join of the receive thread returns.
WaitJoinReceiver ==
  /\ Running
  /\ shutdown.wait = "joinReceiver"
  /\ receiver.pc = "done"
  /\ shutdown' = [shutdown EXCEPT !.wait = "returned"]
  /\ UNCHANGED <<pgnTable, cyclic, receiver, sim>>
  /\ UNCHANGED <<treeVars, udsVars, doipVars, j1939Vars, scriptVars, globalVars>>

\* start_server deletes the simulator after waitForSimulationEnd returned.
DeleteAfterWait ==
  /\ Running
  /\ shutdown.wait = "returned"
  /\ shutdown' = [shutdown EXCEPT !.wait = "deleted"]
  /\ sim' = [sim EXCEPT !.deleted = TRUE]
  /\ UNCHANGED <<pgnTable, cyclic, receiver>>
  /\ UNCHANGED <<treeVars, udsVars, doipVars, j1939Vars, scriptVars, globalVars>>

\* signalHandler deletes the simulator right after stopSimulation.
HandlerDelete ==
  /\ Running
  /\ shutdown.handler = "stopped"
  /\ shutdown' = [shutdown EXCEPT !.handler = "deleted"]
  /\ sim' = [sim EXCEPT !.deleted = TRUE]
  /\ UNCHANGED <<pgnTable, cyclic, receiver>>
  /\ UNCHANGED <<treeVars, udsVars, doipVars, j1939Vars, scriptVars, globalVars>>

\* signalHandler calls exit(1).
HandlerExit ==
  /\ Running
  /\ shutdown.handler = "deleted"
  /\ shutdown' = [shutdown EXCEPT !.handler = "exited"]
  /\ sim' = [sim EXCEPT !.exited = TRUE]
  /\ UNCHANGED <<pgnTable, cyclic, receiver>>
  /\ UNCHANGED <<treeVars, udsVars, doipVars, j1939Vars, scriptVars, globalVars>>

\* J1939Simulator::J1939Simulator returned: the receiver socket is open, the
\* receive thread and the periodic sender threads are started, start_server
\* waits in waitForSimulationEnd.
InitCyclic ==
  /\ table = {}
  /\ pending = {}
  /\ processed = <<>>
  /\ ignored = {}
  /\ tree = EmptyTree
  /\ pc = "threads"
  /\ probe = NoProbe
  /\ InitUdsState
  /\ InitDoipState
  /\ InitJ1939State
  /\ InitScriptState
  /\ InitGlobalState
  /\ pgnTable \in [Senders -> PgnTableEntries]
  /\ cyclic = [s \in Senders |-> NewSender]
  /\ receiver = [pc |-> "recvfrom", received |-> FALSE]
  /\ sim = [isOnExit |-> FALSE, receive_skt |-> "open", deleted |-> FALSE,
            exited |-> FALSE]
  /\ shutdown = [wait |-> "joinCyclic", i |-> 1, handler |-> "idle"]

CyclicStep(s) ==
  \/ CyclicEvaluate(s)
  \/ CyclicCheckBus(s)
  \/ CyclicSend(s)
  \/ CyclicClose(s)
  \/ CyclicSleep(s)
  \/ CyclicWhile(s)

ReceiverStep ==
  \/ ReceiverRecvfrom
  \/ ReceiverWhile

WaitStep ==
  \/ WaitJoinCyclic
  \/ WaitJoinReceiver
  \/ DeleteAfterWait

\* The simulator runs and is stopped.
NextCyclic ==
  \/ \E s \in Senders : CyclicStep(s)
  \/ \E s \in Senders : ScriptSetsCycleTime(s)
  \/ ReceiverStep
  \/ ReceiverDatagram
  \/ StopSimulation
  \/ WaitStep

SpecCyclic == InitCyclic /\ [][NextCyclic]_vars

\* Every thread that can take a step takes one; nothing obliges the bus to
\* deliver a datagram or the script to change.
FairThreads ==
  /\ \A s \in Senders : WF_vars(CyclicStep(s))
  /\ WF_vars(ReceiverStep)
  /\ WF_vars(WaitStep)

SpecCyclicFair == SpecCyclic /\ FairThreads

\* The simulator runs and SIGINT is handled.
NextShutdown ==
  \/ NextCyclic
  \/ HandlerDelete
  \/ HandlerExit

SpecShutdown == InitCyclic /\ [][NextShutdown]_vars

\* ------------------------------------------ the threads that share a script
\* Requests that arrive on one front.
MaxRequests == 2

\* Threads that are at work for a request or an iteration at the same time.
MaxBusy == 2

\* The threads start_server and DoIPSimServer::startWithConfig leave running
\* for a script with all fronts: the UDS receive thread, the DoIP TCP
\* listener, the J1939 receive thread and a periodic sender.
ScriptThreads == {"uds", "doip", "j1939", "cyclic"}

ReceiveThreads == {"uds", "doip", "j1939"}

\* The front a thread receives from and answers on.
FrontOf(t) ==
  CASE t = "uds" -> "isotp"
    [] t = "doip" -> "doip"
    [] t = "j1939" -> "j1939"
    [] t = "cyclic" -> "j1939"

\* The functions of EcuLuaScript that take luaLock_ (std::lock_guard).
LockedOperations == {"getRawResponse", "getDataByIdentifier", "getJ1939Response"}

\* The functions the script can call from a callable.
Helpers == {"sendRaw", "sleep", "getCurrentSession", "switchToSession",
            "sendDoipVehicleAnnouncements"}

\* What a request is bound to in the script: nothing, a string, or a
\* callable.
Bindings == {"none", "string", "function"}

\* The request a receive thread reads next: the newest one.
nextRequest_Newest(queue) == queue[Len(queue)]

\* The request a receive thread reads next: the oldest one not yet read.
nextRequest(queue) == Head(queue)

\* EcuLuaScript::sendRaw, the fronts it sends on, without the DoIP server.
sendRaw_IsoTpOnly(server) == {"isotp"}

\* EcuLuaScript::sendRaw, the fronts it sends on: the ISO-TP sender and, when
\* one is registered, the DoIP server.
sendRaw(server) ==
  {"isotp"} \cup (IF server.registered THEN {"doip"} ELSE {})

IdleThread ==
  [pc |-> "idle", op |-> "none", found |-> FALSE, callable |-> FALSE,
   io |-> "none", cur |-> 0, done |-> 0]

Busy == {t \in ScriptThreads : threads[t].pc # "idle"}

Alive == ~doipServer.crashed

Message(t, cause, front) ==
  [front |-> front, by |-> t, cause |-> cause, req |-> threads[t].cur]

\* A request arrives on the front of a receive thread.
Arrival(t) ==
  /\ Alive
  /\ inbox[t].arrived < MaxRequests
  /\ t = "doip" => doipServer.connection = "active"
  /\ inbox' = [inbox EXCEPT ![t] = [queue |-> Append(@.queue, @.arrived + 1),
                                    arrived |-> @.arrived + 1]]
  /\ emitted' = {}
  /\ sessionUser' = "none"
  /\ UNCHANGED <<luaLock, threads, doipServer>>
  /\ UNCHANGED <<treeVars, udsVars, doipVars, j1939Vars, threadVars, globalVars>>

\* The receive loop of a front (IsoTpReceiver, DoIPSimServer::listenTcp,
\* J1939Simulator::readDataThread) reads the next request and calls the
\* handler, which first looks the request up in the script.
Receive(t) ==
  /\ Alive
  /\ t \in ReceiveThreads
  /\ threads[t].pc = "idle"
  /\ Cardinality(Busy) < MaxBusy
  /\ inbox[t].queue # <<>>
  /\ inbox' = [inbox EXCEPT ![t] = [@ EXCEPT !.queue = Tail(@)]]
  /\ threads' = [threads EXCEPT ![t] =
                   [@ EXCEPT !.pc = "enter", !.cur = nextRequest(inbox[t].queue),
                             !.op = IF t = "j1939" THEN "getJ1939Response"
                                    ELSE "getRawResponse"]]
  /\ emitted' = {}
  /\ sessionUser' = "none"
  /\ UNCHANGED <<luaLock, doipServer>>
  /\ UNCHANGED <<treeVars, udsVars, doipVars, j1939Vars, threadVars, globalVars>>

\* sendCyclicMessage starts an iteration: it evaluates the entry of its PGN.
CyclicBegin ==
  /\ Alive
  /\ threads["cyclic"].pc = "idle"
  /\ Cardinality(Busy) < MaxBusy
  /\ threads' = [threads EXCEPT !["cyclic"] =
                   [@ EXCEPT !.pc = "enter", !.op = "getJ1939RequestPGNData"]]
  /\ emitted' = {}
  /\ sessionUser' = "none"
  /\ UNCHANGED <<luaLock, inbox, doipServer>>
  /\ UNCHANGED <<treeVars, udsVars, doipVars, j1939Vars, threadVars, globalVars>>

\* A thread enters a function of EcuLuaScript: the functions with a
\* lock_guard wait for luaLock_ and take it, getJ1939RequestPGNData has none.
\* The function finds what the request is bound to; a callable is invoked.
Enter(t) ==
  /\ Alive
  /\ threads[t].pc = "enter"
  /\ IF threads[t].op \in LockedOperations
     THEN luaLock = "none" /\ luaLock' = t
     ELSE UNCHANGED luaLock
  /\ \E b \in Bindings :
       /\ t = "cyclic" => b # "none"
       /\ threads' = [threads EXCEPT ![t] =
                        [@ EXCEPT !.pc = "script", !.found = (b # "none"),
                                  !.callable = (b = "function")]]
  /\ emitted' = {}
  /\ sessionUser' = "none"
  /\ UNCHANGED <<inbox, doipServer>>
  /\ UNCHANGED <<treeVars, udsVars, doipVars, j1939Vars, threadVars, globalVars>>

\* The callable calls an injected function.  getCurrentSession and
\* switchToSession use the session controller at once; sendRaw, sleep and
\* sendDoipVehicleAnnouncements take their time.
CallHelper(t) ==
  /\ Alive
  /\ threads[t].pc = "script"
  /\ threads[t].callable
  /\ \E h \in Helpers :
         IF h \in {"getCurrentSession", "switchToSession"}
         THEN /\ UNCHANGED threads
              /\ sessionUser' = t
              /\ IF h = "switchToSession"
                 THEN session' \in {"DEFAULT", "PROGRAMMING", "EXTENDED"}
                 ELSE UNCHANGED session
         ELSE /\ threads' = [threads EXCEPT ![t] = [@ EXCEPT !.pc = "io", !.io = h]]
              /\ sessionUser' = "none"
              /\ UNCHANGED session
  /\ emitted' = {}
  /\ UNCHANGED <<luaLock, inbox, doipServer>>
  /\ UNCHANGED <<securityAccessType, uds>>
  /\ UNCHANGED <<treeVars, doipVars, j1939Vars, threadVars, globalVars>>

\* sendRaw, sleep or sendDoipVehicleAnnouncements returns to the callable.
\* sendRaw has handed the bytes to the ISO-TP sender and, with a DoIP server
\* registered, to DoIPSimServer::sendDiagnosticResponse, which uses the
\* connection without testing that there is one: with none the behaviour is
\* undefined, the process ends there or goes on with nothing sent.
HelperReturn(t) ==
  /\ Alive
  /\ threads[t].pc = "io"
  /\ LET h == threads[t].io
         nullConnection == /\ h = "sendRaw"
                           /\ "doip" \in sendRaw(doipServer)
                           /\ doipServer.connection = "none"
     IN  /\ emitted' =
               CASE h = "sendRaw" ->
                      {Message(t, "sendRaw", f) :
                         f \in sendRaw(doipServer) \ (IF nullConnection THEN {"doip"} ELSE {})}
                 [] h = "sendDoipVehicleAnnouncements" ->
                      IF doipServer.registered
                      THEN {Message(t, "announcement", "doip")} ELSE {}
                 [] OTHER -> {}
         /\ \E crash \in (IF nullConnection THEN BOOLEAN ELSE {FALSE}) :
               doipServer' = [doipServer EXCEPT !.crashed = crash]
  /\ threads' = [threads EXCEPT ![t] = [@ EXCEPT !.pc = "script", !.io = "none"]]
  /\ sessionUser' = "none"
  /\ UNCHANGED <<luaLock, inbox>>
  /\ UNCHANGED <<treeVars, udsVars, doipVars, j1939Vars, threadVars, globalVars>>

\* The function of EcuLuaScript returns: a lock_guard releases luaLock_.
Leave(t) ==
  /\ Alive
  /\ threads[t].pc = "script"
  /\ IF threads[t].op \in LockedOperations
     THEN luaLock' = "none"
     ELSE UNCHANGED luaLock
  /\ threads' = [threads EXCEPT ![t] = [@ EXCEPT !.pc = "after", !.callable = FALSE]]
  /\ emitted' = {}
  /\ sessionUser' = "none"
  /\ UNCHANGED <<inbox, doipServer>>
  /\ UNCHANGED <<treeVars, udsVars, doipVars, j1939Vars, threadVars, globalVars>>

Finished(t) == [IdleThread EXCEPT !.done = threads[t].cur]

\* UdsReceiver::proceedReceivedData after getRawResponse: the response is
\* sent and the session timer reset; without one readDataByIdentifier reads the session and looks the
\* identifier up, diagnosticSessionControl sets the session and answers, any
\* other service is answered or dropped.
UdsAfter ==
  /\ Alive
  /\ threads["uds"].pc = "after"
  /\ \/ /\ threads["uds"].op = "getRawResponse"
        /\ threads["uds"].found
        /\ threads' = [threads EXCEPT !["uds"] = Finished("uds")]
        /\ emitted' = {Message("uds", "response", "isotp")}
        /\ sessionUser' = "uds"
        /\ UNCHANGED session
     \/ /\ threads["uds"].op = "getRawResponse"
        /\ ~threads["uds"].found
        /\ \/ /\ threads' = [threads EXCEPT !["uds"] =
                               [@ EXCEPT !.pc = "enter", !.op = "getDataByIdentifier"]]
              /\ emitted' = {}
              /\ sessionUser' = "uds"
              /\ UNCHANGED session
           \/ /\ threads' = [threads EXCEPT !["uds"] = Finished("uds")]
              /\ emitted' = {Message("uds", "response", "isotp")}
              /\ sessionUser' = "uds"
              /\ session' \in {"DEFAULT", "PROGRAMMING", "EXTENDED"}
           \/ /\ threads' = [threads EXCEPT !["uds"] = Finished("uds")]
              /\ emitted' \in {{Message("uds", "response", "isotp")}, {}}
              /\ sessionUser' = "none"
              /\ UNCHANGED session
     \/ /\ threads["uds"].op = "getDataByIdentifier"
        /\ threads' = [threads EXCEPT !["uds"] = Finished("uds")]
        /\ emitted' = {Message("uds", "response", "isotp")}
        /\ sessionUser' = "uds"
        /\ UNCHANGED session
  /\ UNCHANGED <<luaLock, inbox, doipServer>>
  /\ UNCHANGED <<securityAccessType, uds>>
  /\ UNCHANGED <<treeVars, doipVars, j1939Vars, threadVars, globalVars>>

\* DoIPSimServer::receiveFromLibrary after proceedDoIPData: the response or
\* the negative response is sent on the connection unless it is empty.
DoipAfter ==
  /\ Alive
  /\ threads["doip"].pc = "after"
  /\ threads' = [threads EXCEPT !["doip"] = Finished("doip")]
  /\ \/ emitted' = {Message("doip", "response", "doip")}
     \/ threads["doip"].found /\ emitted' = {}
  /\ sessionUser' = "none"
  /\ UNCHANGED <<luaLock, inbox, doipServer>>
  /\ UNCHANGED <<treeVars, udsVars, doipVars, j1939Vars, threadVars, globalVars>>

\* J1939Simulator::processReceivedData after getJ1939Response: a response is
\* sent; without one a request on PGN 0xEA00 is looked up with
\* getJ1939RequestPGNData and answered, any other is dropped.
J1939After ==
  /\ Alive
  /\ threads["j1939"].pc = "after"
  /\ \/ /\ threads["j1939"].op = "getJ1939Response"
        /\ threads["j1939"].found
        /\ threads' = [threads EXCEPT !["j1939"] = Finished("j1939")]
        /\ emitted' = {Message("j1939", "response", "j1939")}
     \/ /\ threads["j1939"].op = "getJ1939Response"
        /\ \/ /\ threads' = [threads EXCEPT !["j1939"] =
                               [@ EXCEPT !.pc = "enter", !.op = "getJ1939RequestPGNData"]]
              /\ emitted' = {}
           \/ /\ ~threads["j1939"].found
              /\ threads' = [threads EXCEPT !["j1939"] = Finished("j1939")]
              /\ emitted' = {}
     \/ /\ threads["j1939"].op = "getJ1939RequestPGNData"
        /\ threads' = [threads EXCEPT !["j1939"] = Finished("j1939")]
        /\ emitted' = {Message("j1939", "response", "j1939")}
  /\ sessionUser' = "none"
  /\ UNCHANGED <<luaLock, inbox, doipServer>>
  /\ UNCHANGED <<treeVars, udsVars, doipVars, j1939Vars, threadVars, globalVars>>

\* sendCyclicMessage after the evaluation: the message is sent when the bus
\* is active, then the thread sleeps.
CyclicAfter ==
  /\ Alive
  /\ threads["cyclic"].pc = "after"
  /\ threads' = [threads EXCEPT !["cyclic"] = IdleThread]
  /\ emitted' \in {{Message("cyclic", "periodic", "j1939")}, {}}
  /\ sessionUser' = "none"
  /\ UNCHANGED <<luaLock, inbox, doipServer>>
  /\ UNCHANGED <<treeVars, udsVars, doipVars, j1939Vars, threadVars, globalVars>>

\* The simulators of one script are constructed and their threads run; the
\* script has the ISO-TP sender and the session controller registered, and
\* a DoIP server or none, which has a connection or none.
InitScript ==
  /\ table = {}
  /\ pending = {}
  /\ processed = <<>>
  /\ ignored = {}
  /\ tree = EmptyTree
  /\ pc = "script"
  /\ probe = NoProbe
  /\ InitUdsState
  /\ InitDoipState
  /\ InitJ1939State
  /\ InitThreadState
  /\ InitGlobalState
  /\ luaLock = "none"
  /\ threads = [t \in ScriptThreads |-> IdleThread]
  /\ inbox = [t \in ReceiveThreads |-> [queue |-> <<>>, arrived |-> 0]]
  /\ emitted = {}
  /\ sessionUser = "none"
  /\ doipServer \in {[registered |-> r, connection |-> c, crashed |-> FALSE] :
                       r \in BOOLEAN, c \in {"none", "active"}}

NextScript ==
  \/ \E t \in ReceiveThreads : Arrival(t)
  \/ \E t \in ReceiveThreads : Receive(t)
  \/ CyclicBegin
  \/ \E t \in ScriptThreads : Enter(t)
  \/ \E t \in ScriptThreads : CallHelper(t)
  \/ \E t \in ScriptThreads : HelperReturn(t)
  \/ \E t \in ScriptThreads : Leave(t)
  \/ UdsAfter
  \/ DoipAfter
  \/ J1939After
  \/ CyclicAfter

SpecScript == InitScript /\ [][NextScript]_vars

\* ----------------------------------------------- getDataBytes, createHash
\* Calls of getDataBytes made in one run.
MaxHashCalls == 3

\* The scripts of two ECUs of one process.
HashEcus == {"A", "B"}

\* The messages a script passes to getDataBytes.
HashMessages ==
  { <<"3", "6", " ", "0", "1", " ", "A", "B", " ", "C", "D">>,
    <<"3", "6", "0", "2", " ", "1", "2">>,
    <<"3", "6", " ", "0", "3">>,
    <<"3", "6", " ", "0", "4", " ", "F">>,
    <<"3", "6">> }

\* CRC_POLY_CCITT and CRC_START_CCITT_FFFF of libcrc.
CRC_POLY_CCITT == 4129
CRC_START_CCITT_FFFF == 65535

\* The exclusive or of two numbers of n bits.
RECURSIVE BitXor(_, _, _)
BitXor(a, b, n) ==
  IF n = 0 THEN 0
  ELSE ((a + b) % 2) + 2 * BitXor(a \div 2, b \div 2, n - 1)

\* n steps of the CRC shift register (16 bits, most significant bit first).
RECURSIVE crcShift(_, _)
crcShift(crc, n) ==
  IF n = 0 THEN crc
  ELSE crcShift(IF crc >= 32768
                THEN BitXor((2 * crc) % 65536, CRC_POLY_CCITT, 16)
                ELSE (2 * crc) % 65536, n - 1)

\* The table of libcrc: the register after a byte was shifted through it.
crc_tabccitt == [i \in 0..255 |-> crcShift(256 * i, 8)]

RECURSIVE crc_ccitt_generic(_, _, _)
crc_ccitt_generic(input, i, crc) ==
  IF i > Len(input) THEN crc
  ELSE LET next == BitXor((crc % 256) * 256,
                          crc_tabccitt[BitXor(crc \div 256, input[i], 8)], 16)
       IN  IF next \in 0..65535
           THEN crc_ccitt_generic(input, i + 1, next)
           ELSE 0

\* crc_ccitt_ffff of libcrc
crc_ccitt_ffff(input) == crc_ccitt_generic(input, 1, CRC_START_CCITT_FFFF)

\* The digits of a number in base 16, without leading zeros.
RECURSIVE HexDigitsOf(_)
HexDigitsOf(v) ==
  IF v < 16 THEN <<HEX_LUT[v + 1]>>
  ELSE HexDigitsOf(v \div 16) \o <<HEX_LUT[(v % 16) + 1]>>

\* snprintf(hash, 5, "%x", crc2) and the padding of createHash.
hashString_Lowercase(crc2) ==
  LET upper == HexDigitsOf(crc2)
      lower == [i \in 1..Len(upper) |->
                  IF HexVal(upper[i]) >= 10 THEN LowerHex[HexVal(upper[i]) - 9]
                  ELSE upper[i]]
  IN  IF Len(lower) % 2 # 0 THEN <<"0">> \o lower ELSE lower

\* snprintf(hash, 5, "%X", crc2) and the padding of createHash: a "0" in
\* front when the number of digits is odd.
hashString(crc2) ==
  LET answer == HexDigitsOf(crc2)
  IN  IF Len(answer) % 2 # 0 THEN <<"0">> \o answer ELSE answer

\* What createHash leaves in receivedDataBytes: nothing is cleared.
resetReceivedData_Kept(data) == data

\* What createHash leaves in receivedDataBytes.
resetReceivedData(data) == <<>>

\* The value createHash returns for the string in receivedDataBytes.
createHash(data) == hashString(crc_ccitt_ffff(literalHexStrToBytes(data)))

\* The message of getDataBytes without its spaces.
Stripped(msg) == SelectSeq(msg, LAMBDA c : c # " ")

\* answer.substr(4, answer.length()) throws std::out_of_range when the
\* string has fewer than 4 characters; getDataBytes is noexcept, so the
\* process is terminated.
SubstrThrows(msg) == Len(Stripped(msg)) < 4

DataBytesOf(msg) == SubSeq(Stripped(msg), 5, Len(Stripped(msg)))

\* EcuLuaScript::getDataBytes, called by the script of ECU e.
GetDataBytes(e, msg) ==
  /\ ~hashCall.terminated
  /\ hashCall.calls < MaxHashCalls
  /\ IF SubstrThrows(msg)
     THEN /\ UNCHANGED receivedDataBytes
          /\ hashCall' = [hashCall EXCEPT !.ecu = e, !.op = "getDataBytes",
                                          !.previous = hashCall.op,
                                          !.result = <<>>, !.own = <<>>,
                                          !.calls = @ + 1, !.terminated = TRUE]
     ELSE /\ receivedDataBytes' = receivedDataBytes \o DataBytesOf(msg)
          /\ hashCall' = [hashCall EXCEPT !.ecu = e, !.op = "getDataBytes",
                                          !.previous = hashCall.op,
                                          !.result = <<>>, !.own = <<>>,
                                          !.calls = @ + 1,
                                          !.passed[e] = @ \o DataBytesOf(msg)]
  /\ UNCHANGED <<treeVars, udsVars, doipVars, j1939Vars, threadVars, scriptVars>>
  /\ UNCHANGED <<startup, tcp>>

\* EcuLuaScript::createHash, called by the script of ECU e.
CreateHash(e) ==
  /\ ~hashCall.terminated
  /\ receivedDataBytes' = resetReceivedData(receivedDataBytes)
  /\ hashCall' = [hashCall EXCEPT !.ecu = e, !.op = "createHash",
                                  !.previous = hashCall.op,
                                  !.result = createHash(receivedDataBytes),
                                  !.own = hashCall.passed[e],
                                  !.passed[e] = <<>>]
  /\ UNCHANGED <<treeVars, udsVars, doipVars, j1939Vars, threadVars, scriptVars>>
  /\ UNCHANGED <<startup, tcp>>

\* Two scripts are loaded; nothing was passed to getDataBytes.
InitHash ==
  /\ table = {}
  /\ pending = {}
  /\ processed = <<>>
  /\ ignored = {}
  /\ tree = EmptyTree
  /\ pc = "hash"
  /\ probe = NoProbe
  /\ InitUdsState
  /\ InitDoipState
  /\ InitJ1939State
  /\ InitThreadState
  /\ InitScriptState
  /\ receivedDataBytes = <<>>
  /\ hashCall = [NoHashCall EXCEPT !.passed = [e \in HashEcus |-> <<>>]]
  /\ startup = NoStartup
  /\ tcp = NoTcp

NextHash ==
  \/ \E e \in HashEcus, msg \in HashMessages : GetDataBytes(e, msg)
  \/ \E e \in HashEcus : CreateHash(e)

SpecHash == InitHash /\ [][NextHash]_vars

\* ------------------------------ start_server and the DoIP connection
\* TCP clients that connect in one run.
MaxConnections == 2

SessionHelpers == {"getCurrentSession", "switchToSession"}

\* Thread u can evaluate a callable of the script: its front was created
\* by start_server; the DoIP library calls back in the thread of listenTcp
\* while a connection is served.
Evaluates(u) ==
  /\ startup.started
  /\ ~startup.aborted
  /\ tcp.using[u] = NoUse
  /\ CASE u = "uds" -> startup.udsSimulator
       [] u = "j1939" -> startup.j1939Simulator
       [] u = "listener" -> startup.doipSimulator /\ tcp.listener = "receive"

\* start_server: the UDS and J1939 simulators are created only with a CAN
\* device and when the script has the simulation, the DoIP simulator when
\* the script has a logical address.  The UDS simulator constructs the
\* UdsReceiver, whose constructor registers the ISO-TP sender and the
\* session controller with the script.
StartServer ==
  /\ pc = "fronts"
  /\ ~startup.started
  /\ startup' = [startup EXCEPT
                   !.started = TRUE,
                   !.udsSimulator = startup.device /\ startup.hasUds,
                   !.j1939Simulator = startup.device /\ startup.hasJ1939,
                   !.doipSimulator = startup.hasDoip,
                   !.pIsoTpSender_ = startup.device /\ startup.hasUds,
                   !.pSessionCtrl_ = startup.device /\ startup.hasUds]
  /\ UNCHANGED <<treeVars, udsVars, doipVars, j1939Vars, threadVars, scriptVars>>
  /\ UNCHANGED <<receivedDataBytes, hashCall, tcp>>

\* EcuLuaScript::getCurrentSession and switchToSession, called by a
\* callable that thread u evaluates.  Without a session controller the
\* assertion fails and the process is aborted; built with NDEBUG the null
\* pointer is used, which is undefined: the process ends or goes on.
CallSessionHelper(u, h) ==
  /\ pc = "fronts"
  /\ Evaluates(u)
  /\ IF startup.pSessionCtrl_
     THEN /\ startup' = [startup EXCEPT
                           !.helper = [by |-> u, helper |-> h, pSessionCtrl_ |-> TRUE]]
          /\ IF h = "switchToSession"
             THEN session' \in {"DEFAULT", "PROGRAMMING", "EXTENDED"}
             ELSE session' = session
     ELSE /\ \E ends \in BOOLEAN :
               startup' = [startup EXCEPT
                             !.helper = [by |-> u, helper |-> h,
                                         pSessionCtrl_ |-> FALSE],
                             !.aborted = ends]
          /\ session' = session
  /\ UNCHANGED <<securityAccessType, uds>>
  /\ UNCHANGED <<treeVars, doipVars, j1939Vars, threadVars, scriptVars>>
  /\ UNCHANGED <<receivedDataBytes, hashCall, tcp>>

\* EcuLuaScript::sendRaw, called by a callable that thread u evaluates, up
\* to the call on the connection in DoIPSimServer::sendDiagnosticResponse:
\* the handle is read without a test and without a lock.  With a null
\* handle the behaviour is undefined: the process ends or goes on.
SendRaw(u) ==
  /\ pc = "fronts"
  /\ Evaluates(u)
  /\ IF startup.pDoipSimServer_
     THEN /\ tcp' = [tcp EXCEPT !.using[u] = [fn |-> "sendDiagnosticResponse",
                                              handle |-> tcp.doipConnection]]
          /\ \E ends \in (IF tcp.doipConnection = 0 THEN BOOLEAN ELSE {FALSE}) :
               startup' = [startup EXCEPT
                             !.helper = [by |-> u, helper |-> "sendRaw",
                                         pSessionCtrl_ |-> startup.pSessionCtrl_],
                             !.aborted = ends]
     ELSE /\ tcp' = tcp
          /\ startup' = [startup EXCEPT
                           !.helper = [by |-> u, helper |-> "sendRaw",
                                       pSessionCtrl_ |-> startup.pSessionCtrl_]]
  /\ UNCHANGED <<treeVars, udsVars, doipVars, j1939Vars, threadVars, scriptVars>>
  /\ UNCHANGED <<receivedDataBytes, hashCall>>

\* The DoIP library calls back while listenTcp is in receiveTcpMessage:
\* diagnosticMessageReceived sends the acknowledgement, receiveFromLibrary
\* hands the answer of a simulator to sendDiagnosticResponse.  Both use
\* the handle, in the thread of listenTcp.
LibraryCallback(fn) ==
  /\ pc = "fronts"
  /\ ~startup.aborted
  /\ tcp.listener = "receive"
  /\ tcp.using["listener"] = NoUse
  /\ fn = "sendDiagnosticResponse" => startup.doipSimulator
  /\ tcp' = [tcp EXCEPT !.using["listener"] = [fn |-> fn,
                                               handle |-> tcp.doipConnection]]
  /\ UNCHANGED <<treeVars, udsVars, doipVars, j1939Vars, threadVars, scriptVars>>
  /\ UNCHANGED <<receivedDataBytes, hashCall, startup>>

\* The call on the connection (sendDiagnosticPayload, sendDiagnosticAck)
\* returns to thread u.  On a connection already destroyed the behaviour
\* is undefined: the process ends or goes on.
ConnectionCallReturns(u) ==
  /\ pc = "fronts"
  /\ ~startup.aborted
  /\ tcp.using[u] # NoUse
  /\ tcp' = [tcp EXCEPT !.using[u] = NoUse]
  /\ \E ends \in (IF tcp.using[u].handle \in tcp.alive THEN {FALSE} ELSE BOOLEAN) :
       startup' = [startup EXCEPT !.aborted = ends]
  /\ UNCHANGED <<treeVars, udsVars, doipVars, j1939Vars, threadVars, scriptVars>>
  /\ UNCHANGED <<receivedDataBytes, hashCall>>

\* DoIPSimServer::listenTcp: waitForTcpConnection returns the connection
\* of the next client and the assignment to the unique_ptr destroys the
\* connection it owned before.
WaitForTcpConnection ==
  /\ pc = "fronts"
  /\ ~startup.aborted
  /\ tcp.listener = "accept"
  /\ tcp.accepted < MaxConnections
  /\ tcp' = [tcp EXCEPT !.doipConnection = tcp.accepted + 1,
                        !.alive = {tcp.accepted + 1},
                        !.accepted = tcp.accepted + 1,
                        !.listener = "receive"]
  /\ UNCHANGED <<treeVars, udsVars, doipVars, j1939Vars, threadVars, scriptVars>>
  /\ UNCHANGED <<receivedDataBytes, hashCall, startup>>

\* DoIPSimServer::listenTcp: isSocketActive returns false after a
\* receiveTcpMessage and the outer loop waits for the next client; the
\* handle keeps the connection.
SocketInactive ==
  /\ pc = "fronts"
  /\ ~startup.aborted
  /\ tcp.listener = "receive"
  /\ tcp.using["listener"] = NoUse
  /\ tcp' = [tcp EXCEPT !.listener = "accept"]
  /\ UNCHANGED <<treeVars, udsVars, doipVars, j1939Vars, threadVars, scriptVars>>
  /\ UNCHANGED <<receivedDataBytes, hashCall, startup>>

\* main: the device of the command line is set or empty, the script has
\* each simulation or not, and the DoIP server is registered with the
\* script or not; the DoIP server waits for its first client.
InitFronts ==
  /\ table = {}
  /\ pending = {}
  /\ processed = <<>>
  /\ ignored = {}
  /\ tree = EmptyTree
  /\ pc = "fronts"
  /\ probe = NoProbe
  /\ InitUdsState
  /\ InitDoipState
  /\ InitJ1939State
  /\ InitThreadState
  /\ InitScriptState
  /\ receivedDataBytes = <<>>
  /\ hashCall = NoHashCall
  /\ startup \in {[NoStartup EXCEPT !.device = d, !.hasUds = u, !.hasJ1939 = j,
                                    !.hasDoip = i, !.pDoipSimServer_ = r] :
                    d \in BOOLEAN, u \in BOOLEAN, j \in BOOLEAN, i \in BOOLEAN,
                    r \in BOOLEAN}
  /\ tcp = NoTcp

NextFronts ==
  \/ StartServer
  \/ \E u \in FrontThreads : \E h \in SessionHelpers : CallSessionHelper(u, h)
  \/ \E u \in FrontThreads : SendRaw(u)
  \/ \E fn \in {"diagnosticMessageReceived", "sendDiagnosticResponse"} :
       LibraryCallback(fn)
  \/ \E u \in FrontThreads : ConnectionCallReturns(u)
  \/ WaitForTcpConnection
  \/ SocketInactive

SpecFronts == InitFronts /\ [][NextFronts]_vars

\* ------------------------------------------------- patterns and matching
\* The pattern a node stands for is its path.  A pattern is bound when a
\* response was written to its node.
Bound(p) == p \in DOMAIN tree /\ tree[p].luaResponse # NoResponse

IsWildcardPattern(p) == Len(p) > 0 /\ p[Len(p)] = WILDCARD

\* A concrete element matches that byte, a placeholder one arbitrary byte,
\* a trailing wildcard zero or more remaining bytes.
MatchesPattern(p, r) ==
  IF IsWildcardPattern(p)
  THEN /\ Len(p) - 1 <= Len(r)
       /\ \A i \in 1..(Len(p) - 1) : p[i] \in {r[i], PLACEHOLDER}
  ELSE /\ Len(p) = Len(r)
       /\ \A i \in 1..Len(p) : p[i] \in {r[i], PLACEHOLDER}

BoundMatches(r) == {p \in DOMAIN tree : Bound(p) /\ MatchesPattern(p, r)}

PlainMatches(r) == {p \in BoundMatches(r) : ~IsWildcardPattern(p)}

WildcardMatches(r) == {p \in BoundMatches(r) : IsWildcardPattern(p)}

Looked == pc = "looked" /\ probe.done

\* C1: a lookup of r in a tree that holds the bound all-concrete pattern r
\* returns that pattern's response (stated for lookups in which every read
\* returns what the program wrote).
C1_ExactPatternWins ==
  (Looked /\ probe.intact /\ Bound(probe.req))
    => probe.result = tree[probe.req].luaResponse

\* C2: when a bound pattern without wildcard and a bound pattern with
\* trailing wildcard both match r, the lookup does not return the wildcard
\* pattern's response (stated for lookups in which every read returns what
\* the program wrote).
C2_PlainBeatsWildcard ==
  (Looked /\ probe.intact /\ PlainMatches(probe.req) # {})
    => \A w \in WildcardMatches(probe.req) : probe.result # tree[w].luaResponse

\* C3: when only wildcard patterns match r, the lookup returns the response
\* of one whose requestLength is greatest among them (stated for lookups in
\* which every read returns what the program wrote).
C3_LongestWildcardWins ==
  (Looked /\ probe.intact /\ PlainMatches(probe.req) = {}
          /\ WildcardMatches(probe.req) # {})
    => \E w \in WildcardMatches(probe.req) :
         /\ probe.result = tree[w].luaResponse
         /\ \A x \in WildcardMatches(probe.req) :
              tree[x].requestLength <= tree[w].requestLength

\* C4: when only patterns without wildcard match r, the lookup returns the
\* response of one whose placeholder count is least among them.
C4_FewestPlaceholdersWin ==
  (Looked /\ WildcardMatches(probe.req) = {} /\ PlainMatches(probe.req) # {})
    => \E p \in PlainMatches(probe.req) :
         /\ probe.result = tree[p].luaResponse
         /\ \A x \in PlainMatches(probe.req) :
              tree[p].placeholderCount <= tree[x].placeholderCount

\* C4, for the lookups in which every read returns what the program wrote.
C4_IntactFewestPlaceholdersWin == probe.intact => C4_FewestPlaceholdersWin

\* C5: a lookup returns a response exactly if some bound pattern matches
\* the whole request, and the response returned is that of a bound pattern
\* that matches.
C5_MatchIffPatternMatches ==
  Looked =>
    /\ (probe.result # NoResponse) <=> (BoundMatches(probe.req) # {})
    /\ probe.result # NoResponse =>
         \E p \in BoundMatches(probe.req) : probe.result = tree[p].luaResponse

\* C5, for the lookups in which every read returns what the program wrote.
C5_IntactMatchIffPatternMatches == probe.intact => C5_MatchIffPatternMatches

\* ------------------------------------------------------- keys and inserts
Visited == {processed[i] : i \in 1..Len(processed)}

\* The cleaned key without a trailing wildcard.
Body(k) ==
  LET s == cleanupString(Keys[k])
  IN  IF Len(s) > 0 /\ s[Len(s)] = REQUEST_WILDCARD THEN SubSeq(s, 1, Len(s) - 1) ELSE s

\* A key with a two-character unit that is neither two hex digits nor the
\* placeholder, or with a wildcard that is not its last element.
InvalidPatternKey(k) ==
  LET b == Body(k)
  IN  \/ \E i \in 1..Len(b) : b[i] = REQUEST_WILDCARD
      \/ \E i \in 1..Len(b) :
           /\ i % 2 = 1
           /\ i + 1 <= Len(b)
           /\ ~IsPlaceholderUnit(SubSeq(b, i, i + 1))
           /\ ~(b[i] \in HexDigits /\ b[i + 1] \in HexDigits)

\* A key whose cleaned form, a trailing wildcard set aside, has an odd
\* number of hex-digit characters.
OddDigitsKey(k) ==
  LET b == Body(k)
  IN  Cardinality({i \in 1..Len(b) : b[i] \in HexDigits}) % 2 = 1

BoundTo(k) == \E p \in DOMAIN tree : tree[p].luaResponse = k

\* C6: a key with a unit that is neither two hex digits nor XX, or with a
\* wildcard before its end, is rejected and binds no response.
C6_InvalidPatternRejected ==
  \A k \in Visited : InvalidPatternKey(k) => (k \in ignored /\ ~BoundTo(k))

\* C7: a key with an odd number of hex-digit characters, a trailing wildcard
\* set aside, is rejected, with and without a trailing wildcard.
C7_OddDigitsRejected ==
  \A k \in Visited : OddDigitsKey(k) => (k \in ignored /\ ~BoundTo(k))

\* Two keys that normalise to the same wildcard-terminated pattern.
SameWildcardPattern(k1, k2) ==
  LET s1 == cleanupString(Keys[k1])
      s2 == cleanupString(Keys[k2])
  IN  /\ k1 # k2
      /\ s1 = s2
      /\ Len(s1) % 2 = 1
      /\ s1[Len(s1)] = REQUEST_WILDCARD

\* The second of two visited keys with the same wildcard pattern.
IsDuplicateWildcard(j) ==
  \E i \in 1..(j - 1) : SameWildcardPattern(processed[i], processed[j])

\* C8 as claimed: a duplicate wildcard key is fatal for the build, which
\* then does not return a tree.
C8_DuplicateWildcardFatal ==
  (\E j \in 1..Len(processed) : IsDuplicateWildcard(j)) => pc = "build"

\* C8 as amended: a duplicate wildcard key is caught and ignored, its
\* response is bound nowhere, the response of the key visited first stays
\* written at the wildcard leaf, and the loop goes on to the other keys.
C8_DuplicateWildcardSkipped ==
  /\ Visited \cup pending = table
  /\ \A j \in 1..Len(processed) :
       IsDuplicateWildcard(j) =>
         /\ processed[j] \in ignored
         /\ ~BoundTo(processed[j])
         /\ \E i \in 1..(j - 1) :
              /\ SameWildcardPattern(processed[i], processed[j])
              /\ BoundTo(processed[i])

\* Witness of C8: the build returned after it ignored a duplicate wildcard
\* key and bound a key that it visited after the duplicate.
C8_Witness ==
  /\ pc = "ready"
  /\ \E j \in 1..Len(processed) :
       /\ IsDuplicateWildcard(j)
       /\ \E l \in (j + 1)..Len(processed) : BoundTo(processed[l])

TreeWithoutRejected ==
  TreeOf(EmptyTree, SelectSeq(processed, LAMBDA k : k \notin ignored), 1)

\* Every result a lookup of r in tree t can have.
PossibleResults(t, r) ==
  UNION { { getValueFromTree(t, v, r, order) : order \in Orders(FinalCandidates(t, v, r)) }
          : v \in Views(t, r) }

\* The node the code binds key k at.
LeafOf(k) == addRequestToTree(EmptyTree, cleanupString(Keys[k])).leaf

\* C9: a rejected key is skipped and the build goes on: every key is
\* visited, every key that was not rejected has its response written at
\* its leaf, the rejected key's response is written nowhere, and every
\* lookup has the same possible results as in the tree built without the
\* rejected keys.
C9_RejectedKeySkipped ==
  /\ Visited \cup pending = table
  /\ \A k \in Visited \ ignored : tree[LeafOf(k)].luaResponse = k
  /\ \A k \in ignored : ~BoundTo(k)
  /\ (pc = "ready" /\ ignored # {}) =>
       \A r \in Requests :
         PossibleResults(tree, r) = PossibleResults(TreeWithoutRejected, r)

\* Witness of C9: the build returned after it rejected a key that had made
\* nodes of its own, and bound a key that it visited after the rejected one.
C9_Witness ==
  /\ pc = "ready"
  /\ \E j \in 1..Len(processed) :
       /\ processed[j] \in ignored
       /\ DOMAIN tree # DOMAIN TreeWithoutRejected
       /\ \E l \in (j + 1)..Len(processed) : BoundTo(processed[l])

\* ------------------------------------------------------------------ C10
\* The last request matched an entry of the Raw tree.
RawMatched == uds.done /\ uds.response.has

\* C10: a Raw-tree match is sent and followed by a reset of the session
\* controller only when the matched response is nonempty; when the matched
\* entry evaluates to the empty string, nothing is sent for it.
C10_EmptyMatchNotSent ==
  RawMatched =>
    IF uds.response.str # <<>>
    THEN uds.sends = << literalHexStrToBytes(uds.response.str) >> /\ uds.ctrl = <<"reset">>
    ELSE uds.sends = <<>> /\ uds.ctrl = <<>>

\* What the receiver does on every match (side check of C10): one call of
\* sendData with the converted bytes -- none for the empty string -- and one
\* reset.
C10_EveryMatchSentAndReset ==
  RawMatched =>
    /\ uds.sends = << literalHexStrToBytes(uds.response.str) >>
    /\ uds.ctrl = <<"reset">>

\* ------------------------------------------------------------------ C11
\* The request handled last found no Raw match.
NoRawMatch == uds.done /\ ~uds.response.has

\* The service byte of the request handled last.
LastSid == BufferAt(uds.req, 0)

HandledServices ==
  {READ_DATA_BY_IDENTIFIER_REQ, DIAGNOSTIC_SESSION_CONTROL_REQ, SECURITY_ACCESS_REQ}

\* C11: a request without Raw match whose service byte is none of 0x22, 0x10,
\* 0x27 is answered with exactly one reply [0x7F, sid, 0x11], and the session
\* and the security-access state stay as they were.
C11_UnknownServiceRejected ==
  [][ (pc = "ready" /\ NoRawMatch' /\ LastSid' \notin HandledServices)
        => /\ uds'.sends = << <<127, LastSid', 17>> >>
           /\ session' = session
           /\ securityAccessType' = securityAccessType ]_vars

\* An unknown service was rejected in a session other than the default one.
C11_Witness ==
  /\ NoRawMatch
  /\ LastSid \notin HandledServices
  /\ uds.sends = << <<127, LastSid, 17>> >>
  /\ session = "EXTENDED"

\* ------------------------------------------------------------------ C12
\* The name of the ReadDataByIdentifier table the current session selects.
SessionTable ==
  CASE session = "PROGRAMMING" -> "Programming"
    [] session = "EXTENDED" -> "Extended"
    [] OTHER -> "Default"

\* The value the script holds for the DID hi,lo in the table of the current
\* session; the empty string when it holds none.
DidValue(hi, lo) ==
  LET fields == {e \in ReadDataByIdentifierTables :
                   e.name = SessionTable /\ literalHexStrToBytes(e.key) = <<hi, lo>>}
  IN  IF fields = {} THEN <<>> ELSE (CHOOSE e \in fields : TRUE).value

\* C12: a request [0x22, hi, lo, ...] without Raw match is answered from the
\* ReadDataByIdentifier table of the current session: [0x62, hi, lo] followed
\* by the data when the value is nonempty, exactly [0x7F, 0x22, 0x11] when it
\* is absent or empty.
C12_ReadDataByIdentifier ==
  (NoRawMatch /\ LastSid = 34 /\ Len(uds.req) >= 3) =>
    LET hi == uds.req[2]
        lo == uds.req[3]
    IN  IF DidValue(hi, lo) # <<>>
        THEN uds.sends = << <<98, hi, lo>> \o DidValue(hi, lo) >>
        ELSE uds.sends = << <<127, 34, 17>> >>

\* A DID that only the Programming table holds was read in the Programming
\* session.
C12_Witness ==
  /\ NoRawMatch
  /\ uds.req = <<34, 241, 145>>
  /\ session = "PROGRAMMING"
  /\ uds.sends = << <<98, 241, 145, 68>> >>

\* A DID whose value is the empty string was read (side check of C12).
C12_EmptyValueWitness ==
  /\ NoRawMatch
  /\ uds.req = <<34, 241, 146>>
  /\ session = "DEFAULT"
  /\ uds.sends = << <<127, 34, 17>> >>

\* ------------------------------------------------------------------ C13
\* C13: a request [0x10, sub] without Raw match and with sub in 1..3 makes
\* the session Default, Programming or Extended, starts the session timer
\* exactly for Programming and Extended, and is answered with [0x50, sub].
C13_DiagnosticSessionControl ==
  (NoRawMatch /\ LastSid = 16 /\ Len(uds.req) >= 2 /\ uds.req[2] \in {1, 2, 3}) =>
    LET sub == uds.req[2]
    IN  /\ session = <<"DEFAULT", "PROGRAMMING", "EXTENDED">>[sub]
        /\ uds.ctrl = IF sub \in {2, 3} THEN <<"start">> ELSE <<>>
        /\ uds.sends = << <<80, sub>> >>

\* The Extended session was entered.
C13_Witness ==
  /\ NoRawMatch
  /\ uds.req = <<16, 3>>
  /\ session = "EXTENDED"
  /\ uds.ctrl = <<"start">>
  /\ uds.sends = << <<80, 3>> >>

\* The default session was entered and no timer started (side check of C13).
C13_DefaultWitness ==
  /\ NoRawMatch
  /\ uds.req = <<16, 1>>
  /\ session = "DEFAULT"
  /\ uds.ctrl = <<>>

\* ------------------------------------------------------------ C14, C15
\* The request handled last is a SecurityAccess request [0x27, sub] without
\* Raw match.
SecurityAccessRequest ==
  NoRawMatch /\ LastSid = 39 /\ Len(uds.req) >= 2

\* C14: the security-access handshake.  A request [0x27, s] without Raw match
\* for which the script holds a seed is answered with [0x27, s] followed by
\* the seed and sets securityAccessType_ to s + 1; the request [0x27, s + 1]
\* that follows it at once, for which the script holds no seed, is answered
\* with [0x67] and sets securityAccessType_ back to 0.
C14_SecurityAccessHandshake ==
  [][ /\ (pc = "ready" /\ SecurityAccessRequest' /\ getSeed(uds'.req[2]) # <<>>)
         => /\ Len(uds'.sends) = 1
            /\ Len(uds'.sends[1]) > 2
            /\ SubSeq(uds'.sends[1], 1, 2) = <<39, uds'.req[2]>>
            /\ securityAccessType' = uds'.req[2] + 1
      /\ (/\ pc = "ready"
          /\ SecurityAccessRequest /\ getSeed(uds.req[2]) # <<>>
          /\ SecurityAccessRequest' /\ uds'.req = <<39, uds.req[2] + 1>>
          /\ getSeed(uds'.req[2]) = <<>>)
         => /\ uds'.sends = << <<103>> >>
            /\ securityAccessType' = 0 ]_vars

\* C15: a request [0x27, sub] without Raw match, for which the script holds
\* no seed and sub is not the value of securityAccessType_, is answered with
\* exactly [0x7F, 0x27, 0x11] and leaves securityAccessType_ as it was.
C15_SecurityAccessRejected ==
  [][ (/\ pc = "ready"
       /\ SecurityAccessRequest'
       /\ getSeed(uds'.req[2]) = <<>>
       /\ uds'.req[2] # securityAccessType)
      => /\ uds'.sends = << <<127, 39, 17>> >>
         /\ securityAccessType' = securityAccessType ]_vars

\* What the receiver does with a SecurityAccess request without Raw match
\* (side check of C14 and C15): nothing is sent, and the session and
\* securityAccessType_ stay as they are.
SecurityAccessDropped ==
  [][ (pc = "ready" /\ SecurityAccessRequest')
      => /\ uds'.sends = <<>>
         /\ uds'.ctrl = <<>>
         /\ session' = session
         /\ securityAccessType' = securityAccessType ]_vars

\* ------------------------------------------------------------------ C16
\* Some registered simulator has the logical address.
Hosted(address) == \E i \in 1..Len(ecus) : ecus[i].logicalEcuAddress = address

\* C16: on a notification for target address t exactly one diagnostic ACK is
\* sent, positive with code 0x00 when a registered simulator has the address
\* t, negative with code 0x03 otherwise, and the callback returns whether
\* the ACK was positive.
C16_DiagnosticAck ==
  (doip.done /\ doip.kind = "notify") =>
    /\ doip.acks = << [address |-> doip.address, positive |-> Hosted(doip.address),
                       ackCode |-> IF Hosted(doip.address) THEN 0 ELSE 3] >>
    /\ doip.result = Hosted(doip.address)
    /\ doip.sends = <<>>

\* A notification for the address of the second of two simulators was
\* acknowledged.
C16_Witness ==
  /\ doip.done /\ doip.kind = "notify"
  /\ Len(ecus) = 2
  /\ ecus[1].logicalEcuAddress # doip.address
  /\ ecus[2].logicalEcuAddress = doip.address
  /\ doip.result

\* A notification for an address nobody has was refused (side check of C16).
C16_NegativeWitness ==
  /\ doip.done /\ doip.kind = "notify"
  /\ Len(ecus) = 2
  /\ ~Hosted(doip.address)
  /\ ~doip.result

\* ------------------------------------------------------------------ C17
\* Diagnostic data for a hosted address was handled last.
HostedData == doip.done /\ doip.kind = "data" /\ Hosted(doip.address)

\* C17: diagnostic data for a hosted address is matched against the Raw tree
\* of the simulator with that address.  On a hit the bytes of the response
\* are sent with the simulator's logical address as source (nothing is
\* handed to the connection when the response has no bytes); on a miss
\* exactly [0x7F, bytes[0], 0x11] is sent with the same source, whatever the
\* service.
C17_DoipData ==
  (HostedData /\ Len(doip.data) > 0) =>
    /\ doip.response \in getRawResponse(ecus[findECU(doip.address)].requestByteTree,
                                        doip.data)
    /\ IF doip.response.has
       THEN LET bytes == literalHexStrToBytes(doip.response.str)
            IN  doip.sends = IF bytes # <<>>
                             THEN << [source |-> doip.address, payload |-> bytes] >>
                             ELSE <<>>
       ELSE doip.sends = << [source |-> doip.address,
                             payload |-> <<127, doip.data[1], 17>>] >>

\* A ReadDataByIdentifier request that no Raw entry of the simulator matches
\* was refused, although the script holds the DID.
C17_Witness ==
  /\ HostedData
  /\ doip.data = <<34, 241, 144>>
  /\ ~doip.response.has
  /\ getDataByIdentifier(toByteResponse(61840, 2), "Default") # <<>>
  /\ doip.sends = << [source |-> doip.address, payload |-> <<127, 34, 17>>] >>

\* A Raw entry of the second simulator matched (side check of C17).
C17_HitWitness ==
  /\ HostedData
  /\ Len(ecus) = 2
  /\ findECU(doip.address) = 2
  /\ doip.response.has
  /\ doip.sends = << [source |-> doip.address, payload |-> <<98, 241, 1>>] >>

\* ------------------------------------------------------------------ C18
\* The datagram handled last, as the lookup sees it: the three bytes of the
\* PGN followed by the payload.
LastLookupPayload == PgnBytes(j1939.pgn) \o j1939.buffer

\* Some payload-matched pattern of the script matches the datagram.
PgnPatternMatches ==
  LET t == buildRequestByteTreeFromPGNTable(pgns)
  IN  \E p \in DOMAIN t :
        t[p].luaResponse # NoResponse /\ MatchesPattern(p, LastLookupPayload)

\* The keys of the script that name the PGN pgn.
PgnEntries(pgn) ==
  {k \in pgns : find_first_of(PgnKeys[k], "#") = 0 /\ parsePGN(PgnKeys[k]) = pgn}

\* A request of three bytes arrived on PGN 0xEA00 and no payload-matched
\* pattern matches it.
UnmatchedPgnRequest ==
  /\ j1939.done
  /\ j1939.pgn = 59904
  /\ Len(j1939.buffer) = 3
  /\ ~PgnPatternMatches

\* C18: a datagram on PGN 0xEA00 that no payload-matched pattern matches is
\* decoded as a little-endian PGN; the payload of the script's entry for that
\* PGN is sent on that PGN to the address the request came from.
C18_RequestedPgnSent ==
  (UnmatchedPgnRequest /\ PgnEntries(LittleEndian(j1939.buffer)) # {}) =>
    \E k \in PgnEntries(LittleEndian(j1939.buffer)) :
      j1939.sends = << [pgn     |-> LittleEndian(j1939.buffer),
                        addr    |-> j1939.sourceAddress,
                        payload |-> literalHexStrToBytes(PgnValues[k])] >>

\* What the simulator does (side check of C18): one message is sent on the
\* decoded PGN to the requester; its payload is the one of the entry whose
\* key, cleaned, is the request payload in upper-case hex, and is empty when
\* the script has no entry written that way.
C18_EntryFoundByText ==
  UnmatchedPgnRequest =>
    LET text == cleanupString(intToHexString(j1939.buffer))
        found == {k \in pgns : find_first_of(PgnKeys[k], "#") = 0
                               /\ cleanupString(PgnKeys[k]) = text}
    IN  /\ Len(j1939.sends) = 1
        /\ j1939.sends[1].pgn = LittleEndian(j1939.buffer)
        /\ j1939.sends[1].addr = j1939.sourceAddress
        /\ IF found = {} THEN j1939.sends[1].payload = <<>>
           ELSE \E k \in found :
                  j1939.sends[1].payload = literalHexStrToBytes(PgnValues[k])

\* The request EE FE 00 was answered from the entry "EE FE 00" (side check
\* of C18).
C18_HexKeyWitness ==
  /\ UnmatchedPgnRequest
  /\ j1939.buffer = <<238, 254, 0>>
  /\ j1939.sends = << [pgn |-> 65262, addr |-> j1939.sourceAddress,
                       payload |-> <<17, 34>>] >>

\* ------------------------------------------------------------------ C19
\* The responses of the script that are "ACK" followed by zero, one or two
\* hex bytes, and the control byte and group function value each one names.
AckResponses == {PgnValues[1], PgnValues[2], PgnValues[3], PgnValues[7]}

AckFields(response) ==
  CASE response = <<"A","C","K">> -> <<0, 0>>
    [] response = <<"A","C","K"," ","0","1">> -> <<1, 0>>
    [] response = <<"A","C","K"," ","0","3">> -> <<3, 0>>
    [] response = <<"A","C","K"," ","0","1"," ","0","2">> -> <<1, 2>>

\* C19: for a response "ACK" followed by zero, one or two hex bytes the
\* message sent has the 8 bytes [ctrl, group_fn, 0xFF, 0xFF, requester
\* address, PGN of the request least significant byte first], ctrl and
\* group_fn being 0x00 when absent, and goes on PGN 0xE800 to address 0xFF.
C19_Acknowledgement ==
  (j1939.done /\ j1939.pgnResponse \in AckResponses) =>
    j1939.sends =
      << [pgn     |-> 59392,
          addr    |-> 255,
          payload |-> AckFields(j1939.pgnResponse)
                        \o <<255, 255, j1939.sourceAddress,
                             j1939.pgn % 256, (j1939.pgn \div 256) % 256,
                             (j1939.pgn \div 65536) % 256>>] >>

\* A request on PGN 0xFECA was acknowledged with one byte of information.
C19_Witness ==
  /\ j1939.done
  /\ j1939.pgn = 65226
  /\ j1939.pgnResponse = <<"A","C","K"," ","0","3">>
  /\ j1939.sends = << [pgn |-> 59392, addr |-> 255,
                       payload |-> <<3, 0, 255, 255, j1939.sourceAddress,
                                     202, 254, 0>>] >>

\* ------------------------------------------------------------------ C20
StartsWithAck(response) == substr(response, 0, 3) = <<"A","C","K">>

\* The message the response stands for when "ACK" is tested before '#'.
AckTestedFirst(response, sourceAddress, pgn) ==
  LET separatorPos == find_first_of(response, "#")
  IN  IF StartsWithAck(response)
      THEN [pgn |-> 59392, addr |-> 255,
            payload |-> assembleACK(substr(response, 3, Len(response)),
                                    sourceAddress, pgn)]
      ELSE IF separatorPos # 0
           THEN [pgn |-> parsePGN(substr(response, 0, separatorPos - 1)),
                 addr |-> sourceAddress,
                 payload |-> literalHexStrToBytes(
                               substr(response, separatorPos, Len(response)))]
           ELSE [pgn |-> pgn, addr |-> sourceAddress,
                 payload |-> literalHexStrToBytes(response)]

\* C20: a nonempty response is an acknowledgement when it begins with "ACK",
\* also when it contains '#'; else, when it contains '#', the part before
\* is the responding PGN and the part after the payload, sent to the
\* requester; else its bytes are sent on the PGN of the request to the
\* requester.  One message is sent per matched request.
C20_ClassifiedAckFirst ==
  (j1939.done /\ j1939.pgnResponse # <<>>) =>
    j1939.sends =
      << AckTestedFirst(j1939.pgnResponse, j1939.sourceAddress, j1939.pgn) >>

\* What the simulator does (side check of C20): the classification of the
\* claim for every response that does not both begin with "ACK" and contain
\* '#'; a response that does both is split at the '#'.
C20_ClassifiedSeparatorFirst ==
  (j1939.done /\ j1939.pgnResponse # <<>>) =>
    LET response == j1939.pgnResponse
        separatorPos == find_first_of(response, "#")
    IN  IF StartsWithAck(response) /\ separatorPos # 0
        THEN j1939.sends =
               << [pgn |-> parsePGN(substr(response, 0, separatorPos - 1)),
                   addr |-> j1939.sourceAddress,
                   payload |-> literalHexStrToBytes(
                                 substr(response, separatorPos, Len(response)))] >>
        ELSE j1939.sends =
               << AckTestedFirst(response, j1939.sourceAddress, j1939.pgn) >>

\* A response with a PGN before '#' and one without were sent (side checks
\* of C20).
C20_SeparatorWitness ==
  /\ j1939.done
  /\ j1939.pgnResponse = PgnValues[4]
  /\ j1939.sends = << [pgn |-> 65262, addr |-> j1939.sourceAddress,
                       payload |-> <<10, 11>>] >>

C20_PlainWitness ==
  /\ j1939.done
  /\ j1939.pgnResponse = PgnValues[5]
  /\ j1939.sends = << [pgn |-> 59904, addr |-> j1939.sourceAddress,
                       payload |-> <<12, 13>>] >>

\* ------------------------------------------------------------------ C21
\* The script yields the cycle time 0 for an entry that is a plain value, a
\* function, a table without the field cycleTime or a table whose cycleTime
\* is 0.
YieldsCycleTimeZero(entry) ==
  \/ entry.kind \in {"value", "function"}
  \/ ~entry.hasCycleTime
  \/ entry.cycleTime = 0

\* C21: a periodic sender terminates in the first iteration in which the
\* script yields cycleTime 0, without sending in that iteration; a terminated
\* sender never sends again, whatever the script yields later; the sender of
\* an entry that is a plain value or a callable never sends.
C21_CycleTimeZeroTerminates ==
  [][\A s \in Senders :
       LET c == cyclic[s]
           d == cyclic'[s]
       IN  /\ (c.pc = "eval" /\ d # c /\ YieldsCycleTimeZero(pgnTable[s])) =>
                (d.pc = "done" /\ d.sent = c.sent /\ d.attempts = 0 /\ ~d.sendSkt)
           /\ c.pc = "done" => d = c
           /\ pgnTable[s].kind \in {"value", "function"} => ~d.sent]_vars

\* A sender that had sent terminated on cycleTime 0, and the script yields a
\* cycle time other than 0 again.
C21_Witness ==
  \E s \in Senders :
    /\ cyclic[s].pc = "done"
    /\ cyclic[s].sent
    /\ ~sim.isOnExit
    /\ pgnTable[s].hasCycleTime
    /\ pgnTable[s].cycleTime # 0

\* The sender of a plain value terminated without a send (side check of C21).
C21_PlainValueWitness ==
  \E s \in Senders :
    /\ pgnTable[s].kind = "value"
    /\ cyclic[s].pc = "done"
    /\ ~cyclic[s].checked
    /\ ~sim.isOnExit

\* ------------------------------------------------------------------ C22
\* C22: in an iteration with the bus active at most 5 send attempts are made,
\* an attempt after the first is made only after EAGAIN/EWOULDBLOCK, none
\* after a successful send, and after the attempts (success, retries
\* exhausted, other error) the sender closes the socket, sleeps and, unless
\* the simulator is stopping, starts the next cycle.
C22_BoundedRetries ==
  [][\A s \in Senders :
       LET c == cyclic[s]
           d == cyclic'[s]
       IN  /\ d.attempts <= 5
           /\ d.attempts > c.attempts =>
                (c.pc = "send" /\ (c.attempts = 0 \/ c.result = "EAGAIN"))
           /\ c.result \in {"ok", "error"} => d.attempts <= c.attempts
           /\ (c.pc = "send" /\ d # c) =>
                \/ d.pc = "send" /\ d.result = "EAGAIN" /\ d.attempts < 5
                \/ d.pc = "close"
           /\ (c.pc = "close" /\ d # c) => d.pc = "sleep"
           /\ (c.pc = "sleep" /\ d # c) => d.pc = "while"
           /\ (c.pc = "while" /\ d # c /\ ~sim.isOnExit) => d.pc = "eval"]_vars

\* The fifth attempt of an iteration failed with EAGAIN: the retries are
\* exhausted.
C22_Witness ==
  \E s \in Senders :
    /\ cyclic[s].pc = "close"
    /\ cyclic[s].attempts = 5
    /\ cyclic[s].result = "EAGAIN"

\* An attempt failed with another error, and one succeeded after a retry
\* (side checks of C22).
C22_ErrorWitness ==
  \E s \in Senders :
    /\ cyclic[s].pc = "close"
    /\ cyclic[s].attempts = 1
    /\ cyclic[s].result = "error"

C22_RetrySucceededWitness ==
  \E s \in Senders :
    /\ cyclic[s].pc = "close"
    /\ cyclic[s].attempts = 3
    /\ cyclic[s].result = "ok"

\* ------------------------------------------------------------------ C23
\* C23: in an iteration in which the CAN state is neither ERROR_ACTIVE nor
\* ERROR_WARNING, or cannot be read, no socket is opened and no send is
\* attempted, and the sender sleeps before it examines the bus again: every
\* bus check but the first follows a sleep made after the check before.
C23_InactiveBusSleeps ==
  [][\A s \in Senders :
       LET c == cyclic[s]
           d == cyclic'[s]
       IN  /\ (c.pc = "bus" /\ d # c
                 /\ d.canState \notin {"ERROR_ACTIVE", "ERROR_WARNING"}) =>
                (d.pc = "sleep" /\ ~d.sendSkt /\ d.attempts = 0)
           /\ (c.pc = "sleep" /\ d # c) => (d.pc = "while" /\ d.slept)
           /\ c.pc \in {"sleep", "while", "eval"} => (d.attempts = 0 /\ ~d.sendSkt)
           /\ (c.pc = "bus" /\ c.checked) => c.slept]_vars

\* A sender found the state of the bus unreadable and is about to sleep.
C23_Witness ==
  \E s \in Senders :
    /\ cyclic[s].pc = "sleep"
    /\ cyclic[s].canState = "unreadable"
    /\ ~cyclic[s].sendSkt
    /\ ~cyclic[s].sent

\* A sender that never sent is about to examine the bus again (side check of
\* C23).
C23_SecondCheckWitness ==
  \E s \in Senders :
    /\ cyclic[s].pc = "bus"
    /\ cyclic[s].checked
    /\ cyclic[s].slept
    /\ ~cyclic[s].sent

\* ------------------------------------------------------------------ C24
SendersDone == \A s \in Senders : cyclic[s].pc = "done"

\* C24: after stopSimulation every periodic sender thread and the receive
\* thread eventually terminate and waitForSimulationEnd eventually returns.
C24_StopTerminates ==
  sim.isOnExit ~>
    (SendersDone /\ receiver.pc = "done" /\ shutdown.wait \in {"returned", "deleted"})

\* After stopSimulation every periodic sender thread eventually terminates
\* (side check of C24).
C24_SendersTerminate == sim.isOnExit ~> SendersDone

\* The receive thread is blocked in recvfrom on the socket that was closed
\* (side check of C24).
C24_BlockedWitness ==
  /\ sim.isOnExit
  /\ sim.receive_skt = "closed"
  /\ receiver.pc = "blocked"
  /\ SendersDone

\* ------------------------------------------------------------------ C25
\* C25: no simulator is deleted while one of its threads is still running.
C25_DeletedAfterThreadsEnd ==
  sim.deleted => (SendersDone /\ receiver.pc = "done")

\* The delete of start_server, made after waitForSimulationEnd returned,
\* finds every thread terminated (side check of C25).
C25_DeleteAfterWaitIsSafe ==
  shutdown.wait = "deleted" => (SendersDone /\ receiver.pc = "done")

\* The SIGINT handler deleted the simulator while a periodic sender sleeps
\* (side check of C25).
C25_SleepingSenderWitness ==
  /\ shutdown.handler = "deleted"
  /\ \E s \in Senders : cyclic[s].pc = "sleep"

\* ------------------------------------------------------------------ C26
\* A thread is inside a function of EcuLuaScript that works on the script.
InScript(t) == threads[t].pc \in {"script", "io"}

\* C26: every operation on the script of an ECU runs with luaLock_ held by
\* the thread that runs it, the evaluation of a PGN entry included, so no
\* two threads work on the script at the same time.
C26_ScriptSerialized ==
  /\ \A t \in ScriptThreads : InScript(t) => luaLock = t
  /\ Cardinality({t \in ScriptThreads : InScript(t)}) <= 1

\* The functions with a lock_guard exclude one another (side check of C26).
C26_LockedOperationsSerialized ==
  \A t, u \in ScriptThreads :
    (/\ InScript(t) /\ threads[t].op \in LockedOperations
     /\ InScript(u) /\ threads[u].op \in LockedOperations) => t = u

\* The periodic sender evaluates its entry while the UDS receive thread is
\* inside getRawResponse (side check of C26).
C26_ConcurrentWitness ==
  /\ threads["uds"].pc = "script"
  /\ luaLock = "uds"
  /\ threads["cyclic"].pc = "script"
  /\ threads["cyclic"].op = "getJ1939RequestPGNData"

\* ------------------------------------------------------------------ C27
\* C27: luaLock_ is not held by a thread while that thread sends or sleeps,
\* also not inside sendRaw or sleep called from a callable.
C27_NoLockAcrossIo ==
  \A t \in ScriptThreads : threads[t].pc = "io" => luaLock # t

\* The response of a request and a periodic message are sent after the lock
\* was released (side check of C27).
C27_ResponseSentUnlocked ==
  \A m \in emitted : m.cause \in {"response", "periodic"} => luaLock # m.by

\* A callable of getJ1939Response sleeps with the lock held (side check of
\* C27).
C27_SleepLockedWitness ==
  /\ threads["j1939"].pc = "io"
  /\ threads["j1939"].io = "sleep"
  /\ threads["j1939"].op = "getJ1939Response"
  /\ luaLock = "j1939"

\* ------------------------------------------------------------------ C28
\* C28: a front handles its requests in the order of their arrival: the
\* request at work is the one after the last one finished, the requests
\* waiting are later ones, and a response belongs to the request that was
\* finished with it.
C28_ArrivalOrder ==
  \A t \in ReceiveThreads :
    /\ threads[t].cur \in {0, threads[t].done + 1}
    /\ \A i \in 1..Len(inbox[t].queue) :
         /\ inbox[t].queue[i] > threads[t].cur
         /\ inbox[t].queue[i] > threads[t].done
         /\ i > 1 => inbox[t].queue[i] = inbox[t].queue[i - 1] + 1
    /\ \A m \in emitted :
         (m.by = t /\ m.cause = "response") =>
           (m.req = threads[t].done /\ threads[t].cur = 0)
    /\ \A m \in emitted :
         (m.by = t /\ m.cause # "response") => m.req = threads[t].cur

\* A front works on its first request while the second one waits.
C28_Witness ==
  \E t \in ReceiveThreads :
    /\ threads[t].cur = 1
    /\ threads[t].pc = "io"
    /\ inbox[t].queue = <<2>>

\* The response of the second request of a front is sent (side check of
\* C28).
C28_SecondResponseWitness ==
  \E t \in ReceiveThreads :
    /\ threads[t].done = 2
    /\ \E m \in emitted : m.by = t /\ m.cause = "response" /\ m.req = 2

C29_ResponseSameFront ==
  \A m \in emitted :
    m.cause \in {"response", "periodic"} => m.front = FrontOf(m.by)

\* sendRaw called for an ISO-TP request with a DoIP server registered that
\* has no connection: nothing reaches the DoIP front (side check of C29).
C29_NullConnectionWitness ==
  /\ doipServer.registered
  /\ doipServer.connection = "none"
  /\ \E m \in emitted : m.cause = "sendRaw" /\ m.by = "uds"
  /\ \A m \in emitted : m.front # "doip"

\* sendRaw called for a J1939 request reaches the ISO-TP and the DoIP front
\* (side check of C29).
C29_BroadcastWitness ==
  {[front |-> m.front, by |-> m.by, cause |-> m.cause] : m \in emitted} =
    {[front |-> f, by |-> "j1939", cause |-> "sendRaw"] : f \in {"isotp", "doip"}}

\* A callable of an ISO-TP request has vehicle announcements sent on the
\* DoIP front (side check of C29).
C29_AnnouncementWitness ==
  \E m \in emitted : m.by = "uds" /\ m.cause = "announcement" /\ m.front = "doip"

\* ------------------------------------------------------------------ C30
\* C30: the session of the session controller is read and written by the
\* UDS receive thread only.
C30_SessionOnlyUds == sessionUser \in {"none", "uds"}

\* The UDS handler itself uses the session from its own thread only (side
\* check of C30).
C30_HandlerOnlyUds ==
  [][sessionUser' \notin {"none", "uds"} =>
       /\ threads[sessionUser'].pc = "script"
       /\ threads[sessionUser'].callable]_vars

\* A callable of a DoIP request switched the session (side check of C30).
C30_DoipSwitchWitness ==
  /\ sessionUser = "doip"
  /\ threads["doip"].pc = "script"
  /\ session = "PROGRAMMING"

\* ------------------------------------------------------------------ C31
HashOfNothing == createHash(<<>>)

\* C31: createHash leaves the accumulator empty: a createHash made directly
\* after another returns the value of a never-used accumulator.
C31_CreateHashClears ==
  hashCall.op = "createHash" =>
    /\ receivedDataBytes = <<>>
    /\ hashCall.previous = "createHash" => hashCall.result = HashOfNothing

\* createHash was called twice in a row after data was passed to
\* getDataBytes.
C31_Witness ==
  /\ hashCall.op = "createHash"
  /\ hashCall.previous = "createHash"
  /\ hashCall.calls > 0
  /\ hashCall.result = HashOfNothing

\* A createHash over passed data returned another value than over nothing
\* (side check of C31).
C31_DataHashedWitness ==
  /\ hashCall.op = "createHash"
  /\ hashCall.previous = "getDataBytes"
  /\ hashCall.result # HashOfNothing

\* ------------------------------------------------------------------ C32
\* The accumulator was empty when the last createHash was called.
HashedNothing ==
  /\ hashCall.op = "createHash"
  /\ hashCall.previous \in {"none", "createHash"}

\* C32: createHash over the empty accumulator returns "0000".
C32_EmptyHashIs0000 ==
  HashedNothing => hashCall.result = <<"0", "0", "0", "0">>

\* C32 as the code has it: createHash over the empty accumulator returns
\* "FFFF", the start value of the CRC.
C32_EmptyHashIsFFFF ==
  HashedNothing => hashCall.result = <<"F", "F", "F", "F">>

\* The first call a process makes is createHash.
C32_Witness ==
  /\ hashCall.op = "createHash"
  /\ hashCall.previous = "none"
  /\ hashCall.result = <<"F", "F", "F", "F">>

\* ------------------------------------------------------------------ C33
\* C33: the value createHash returns to a script is the hash of what that
\* script passed to getDataBytes since its last createHash.
C33_PerEcuAccumulator ==
  hashCall.op = "createHash" => hashCall.result = createHash(hashCall.own)

\* The value createHash returns is the hash of what all scripts of the
\* process passed since the last createHash of any of them (side check of
\* C33).
C33_ProcessWideAccumulator ==
  [][hashCall'.op = "createHash" =>
       hashCall'.result = createHash(receivedDataBytes)]_vars

\* Script A passed data, script B called createHash and got the hash of
\* A's data (side check of C33).
C33_ForeignDataWitness ==
  /\ hashCall.op = "createHash"
  /\ hashCall.ecu = "B"
  /\ hashCall.own = <<>>
  /\ hashCall.result # HashOfNothing
  /\ hashCall.passed["A"] # <<>>

\* ------------------------------------------------------------------ C34
\* The placeholder edges on a path.
PlaceholderEdges(p) == Cardinality({i \in 1..Len(p) : p[i] = PLACEHOLDER})

\* Neither the node nor a node above it was destroyed.
Unharmed(t, p) == \A i \in 0..Len(p) : t[SubSeq(p, 1, i)].live

CountsFit(t, p) ==
  /\ t[p].requestLength = Len(p)
  /\ t[p].placeholderCount = PlaceholderEdges(p)

\* The tree addRequestToTree leaves for the key the loop visited last.
LastInsert == addRequestToTree(tree, cleanupString(Keys[processed'[Len(processed')]]))

C34_AllNodesAsWritten == \A p \in DOMAIN tree : CountsFit(tree, p)

C35_BoundLeafAlive ==
  \A p \in DOMAIN tree : tree[p].luaResponse # NoResponse => tree[p].live

\* The nodes that are destroyed are the bound nodes and the nodes below
\* them, no others (side check of C35).
C35_DestroyedBelowBound ==
  \A p \in DOMAIN tree :
    ~tree[p].live =>
      \E i \in 0..Len(p) : tree[SubSeq(p, 1, i)].luaResponse # NoResponse

\* buildRequestByteTree returned a tree whose bound leaf is destroyed while
\* its parent, which is alive, still points to it (side check of C35).
C35_DanglingLeafWitness ==
  /\ pc = "ready"
  /\ \E p \in DOMAIN tree :
       /\ Len(p) = 2
       /\ tree[p].luaResponse # NoResponse
       /\ ~tree[p].live
       /\ tree[SubSeq(p, 1, 1)].live

\* ------------------------------------------------------------------ C36
\* The request handled last was answered with [0x67].
SentSecurityAccessRes == uds.done /\ \E i \in 1..Len(uds.sends) : uds.sends[i] = <<103>>

C36_RawSuccessWitness ==
  /\ RawMatched
  /\ uds.req = <<39, 241>>
  /\ uds.sends = << <<103>> >>

\* ------------------------------------------------------------------ C40
\* C40: a request [0x10, sub] without Raw match and with sub outside 1..3
\* leaves the session as it is, starts no session timer and is answered
\* with [0x50, sub].
C40_InvalidSessionId ==
  [][ (/\ pc = "ready"
       /\ NoRawMatch'
       /\ LastSid' = 16
       /\ BufferAt(uds'.req, 1) \notin {1, 2, 3})
      => /\ session' = session
         /\ uds'.ctrl = <<>>
         /\ uds'.sends = << <<80, BufferAt(uds'.req, 1)>> >> ]_vars

\* The session 0x05 was requested in the Extended session.
C40_Witness ==
  /\ NoRawMatch
  /\ uds.req = <<16, 5>>
  /\ session = "EXTENDED"
  /\ uds.ctrl = <<>>
  /\ uds.sends = << <<80, 5>> >>

\* ------------------------------------------------------------------ C39
\* C39: handling a DoIP payload whose matched response is a literal, or
\* that matches nothing, changes neither the UDS session nor the
\* security-access state of the ECU; the request [0x10, 0x02] for a hosted
\* address without a matching Raw entry is answered [0x7F, 0x10, 0x11].
C39_DoipLeavesUdsState ==
  [][/\ session' = session
     /\ securityAccessType' = securityAccessType
     /\ (HostedData' /\ doip'.data = <<16, 2>> /\ ~doip'.response.has) =>
          doip'.sends = << [source |-> doip'.address,
                            payload |-> <<127, 16, 17>>] >>]_vars

\* The request for the programming session arrived on the DoIP front of an
\* ECU in the extended session: it was refused and the session stayed.
C39_Witness ==
  /\ HostedData
  /\ doip.data = <<16, 2>>
  /\ ~doip.response.has
  /\ session = "EXTENDED"
  /\ doip.sends = << [source |-> doip.address, payload |-> <<127, 16, 17>>] >>

\* C39 on the J1939 front: handling a datagram changes neither the UDS
\* session nor the security-access state (side check of C39).
C39_J1939LeavesUdsState ==
  [][session' = session /\ securityAccessType' = securityAccessType]_vars

\* A datagram was answered on the J1939 front of an ECU in the programming
\* session (side check of C39).
C39_J1939Witness ==
  /\ j1939.done
  /\ j1939.sends # <<>>
  /\ session = "PROGRAMMING"
C37_ListenerUsesLive ==
  tcp.using["listener"] # NoUse =>
    /\ tcp.using["listener"].handle = tcp.doipConnection
    /\ tcp.using["listener"].handle \in tcp.alive

\* sendRaw of a callable evaluated on the UDS front used the null handle:
\* no TCP client had connected (side check of C37).
C37_NullHandleWitness ==
  /\ tcp.using["uds"].fn = "sendDiagnosticResponse"
  /\ tcp.using["uds"].handle = 0
  /\ tcp.accepted = 0

\* listenTcp assigned the next connection while sendRaw of the UDS front
\* was using the one before (side check of C37).
C37_ReplacedWitness ==
  /\ tcp.using["uds"].fn = "sendDiagnosticResponse"
  /\ tcp.using["uds"].handle = 1
  /\ tcp.doipConnection = 2
  /\ tcp.using["uds"].handle \notin tcp.alive

\* ------------------------------------------------------------------ C38
\* C38: whenever a callable calls getCurrentSession or switchToSession, a
\* session controller is registered with the script.
C38_SessionControllerRegistered ==
  startup.helper.helper \in SessionHelpers => startup.helper.pSessionCtrl_

\* On the UDS front the session controller is always registered (side
\* check of C38).
C38_UdsFrontRegistered ==
  (startup.helper.helper \in SessionHelpers /\ startup.helper.by = "uds") =>
    startup.helper.pSessionCtrl_

\* A callable of the DoIP front called switchToSession with CAN disabled:
\* no session controller was registered (side check of C38).
C38_DoipOnlyWitness ==
  /\ startup.helper = [by |-> "listener", helper |-> "switchToSession",
                       pSessionCtrl_ |-> FALSE]
  /\ ~startup.device
  /\ startup.doipSimulator

\* A callable of the J1939 front called getCurrentSession in an ECU
\* without UDS simulation (side check of C38).
C38_J1939Witness ==
  /\ startup.helper = [by |-> "j1939", helper |-> "getCurrentSession",
                       pSessionCtrl_ |-> FALSE]
  /\ startup.device
  /\ ~startup.udsSimulator
====
